---- MODULE Spec2Model ----
(***************************************************************************)
(* Agent365-Bridge: the MCP proxy core (src/src/proxy/mcp-proxy-server.ts, *)
(* the registry version of McpProxyServer, lines 364-738), its disk cache  *)
(* (src/unnamed/part_001), ServerDiscovery (src/unnamed/part_000), the     *)
(* ToolForwarder (src/src/config/configuration.ts), main with its shutdown *)
(* handler (src/src/index.ts) and the TokenCache (src/unnamed/part_002).   *)
(*                                                                         *)
(* JSON values are tagged records [k, v]: k is the JavaScript kind and v   *)
(* the payload, so that Array.isArray, typeof and null tests of the source *)
(* are decidable.                                                          *)
(***************************************************************************)
EXTENDS Naturals, Sequences, FiniteSets, TLC

VARIABLES
  forwarder,          \* McpProxyServer.forwarder: "null" or a forwarder id
  resolvedServers,    \* McpProxyServer.resolvedServers
  toolRegistry,       \* McpProxyServer.toolRegistry, a Map in insertion order
  cachedTools,        \* McpProxyServer.cachedTools: NullCache or the loaded list
  discoveryDone,      \* the promise of runDiscovery: "null" | "pending" | "resolved"
  discoveryComplete,  \* McpProxyServer.discoveryComplete
  discoveryError,     \* McpProxyServer.discoveryError: "null" or the message
  discoveryPc,        \* where runDiscovery stands: "none" | "callback" | "notify" | "returned"
  callbackOutcome,    \* the promise of discoveryCallback(): "none" | "pending" | "resolved" | "rejected"
  toolsCacheFile,     \* ~/.agent365-bridge/tools-cache.json
  now,                \* Date.now(), in ms
  calls,              \* the tools/call handler invocations, one slot per concurrent caller
  lastList,           \* the last tools/list response, with what was known when it was given
  delivered,          \* the last tools/call invocation that returned, with its response
  registrySource,     \* which rebuild wrote toolRegistry last: "none" | "cache" | "live"
  callbackInvocations, \* how many times discoveryCallback() was invoked
  notification,       \* how sendToolListChanged() ended: "none" | "sent" | "threw"
  resolutionMode,     \* ServerDiscovery.getServerConfigs: "manifest" | "gateway"
  serverConfigs,      \* discoverAll: the MCPServerConfig list being visited
  resolved,           \* discoverAll: the ResolvedServer list built so far
  discoverPc,         \* discoverAll: [step, i], the await it stands at and the loop index
  discoveryClients,   \* the loop indices whose discovery Client is connected and not closed
  backendFate,        \* per visited backend, how its discoverTools ended
  toolServers,        \* ToolForwarder: the servers its constructor was given
  clients,            \* ToolForwarder.clients: server name -> the Client cached for it
  connections,        \* every Client the forwarder connected, by creation: [key, state]
  forwarderCalls,     \* the ToolForwarder.callTool invocations, one slot per concurrent caller
  forwarderReturned,  \* the last callTool invocation that settled, with its result
  closeAllPc,         \* ToolForwarder.closeAll: [step, i, client], the entry whose close it awaits
  mainPc,             \* main of index.ts: "none" | "config" | "discovering" | "starting" | "serving" | "exited"
  exit,               \* process.exit: [code, cause], "none" while the process runs
  token,              \* TokenCache.token: NoToken or the cached token
  expiresAt,          \* TokenCache.expiresAt, Unix seconds
  pendingRefresh,     \* TokenCache.pendingRefresh: 0 for null, or the index of the promise in refreshes
  refreshes,          \* the promises of TokenCache.refresh, by creation: [state, outcome]
  tokenCalls,         \* the TokenCache.getToken invocations, one slot per concurrent caller
  clock,              \* Math.floor(Date.now() / 1000)
  schemaArg,          \* sanitizeSchema: the schema it is called with, Undefined before the draw
  sanitizeResult      \* sanitizeSchema: [state, value], what the call returned or that it threw

vars == <<forwarder, resolvedServers, toolRegistry, cachedTools, discoveryDone,
          discoveryComplete, discoveryError, discoveryPc, callbackOutcome,
          toolsCacheFile, now, calls, lastList, delivered, registrySource,
          callbackInvocations, notification, resolutionMode, serverConfigs, resolved, discoverPc,
          discoveryClients, backendFate, toolServers, clients, connections,
          forwarderCalls, forwarderReturned, closeAllPc, mainPc, exit,
          token, expiresAt, pendingRefresh, refreshes, tokenCalls, clock,
          schemaArg, sanitizeResult>>

\* the state of McpProxyServer and of its requests
proxyVars == <<forwarder, resolvedServers, toolRegistry, cachedTools, discoveryDone,
               discoveryComplete, discoveryError, discoveryPc, callbackOutcome,
               toolsCacheFile, now, calls, lastList, delivered, registrySource>>
\* the state of one ToolForwarder and of its calls
forwarderVars == <<toolServers, clients, connections, forwarderCalls, forwarderReturned,
                   closeAllPc>>
\* the state of one ServerDiscovery.discoverAll call
discoverAllVars == <<resolutionMode, serverConfigs, resolved, discoverPc,
                     discoveryClients, backendFate>>
\* the state of main (src/src/index.ts)
mainVars == <<mainPc, exit>>
\* the state of one TokenCache and of its callers
tokenCacheVars == <<token, expiresAt, pendingRefresh, refreshes, tokenCalls, clock>>
\* one call of sanitizeSchema on its own
sanitizeVars == <<schemaArg, sanitizeResult>>
\* the state of the components other than McpProxyServer
componentVars == <<discoverAllVars, forwarderVars, mainVars, tokenCacheVars, sanitizeVars>>
\* what no handler and no step of runDiscovery before the notification writes
otherVars == <<callbackInvocations, notification, componentVars>>
\* what no step of a ToolForwarder writes, and what no step of discoverAll writes
outsideForwarder == <<proxyVars, callbackInvocations, notification, discoverAllVars, mainVars,
                      tokenCacheVars, sanitizeVars>>
outsideDiscoverAll == <<proxyVars, callbackInvocations, notification, forwarderVars, mainVars,
                        tokenCacheVars, sanitizeVars>>
outsideMain == <<callbackInvocations, notification, discoverAllVars, tokenCacheVars,
                 sanitizeVars>>
outsideTokenCache == <<proxyVars, callbackInvocations, notification, discoverAllVars,
                       forwarderVars, mainVars, sanitizeVars>>

(***************************************************************************)
(* JSON values                                                             *)
(***************************************************************************)
Obj(f) == [k |-> "obj", v |-> f]
Arr(e) == [k |-> "arr", v |-> e]
Str(s) == [k |-> "str", v |-> s]
Null == [k |-> "null", v |-> "null"]
Undefined == [k |-> "undefined", v |-> "undefined"]
EmptyObj == [key \in {} |-> Null]

\* obj[key] of JavaScript: undefined when the key is absent or obj is no object
Get(obj, key) ==
  IF obj.k = "obj" /\ key \in DOMAIN obj.v THEN obj.v[key] ELSE Undefined

\* JavaScript truthiness of the values the model uses
Truthy(val) ==
  CASE val.k = "null" -> FALSE
    [] val.k = "undefined" -> FALSE
    [] val.k = "str" -> val.v # ""
    [] OTHER -> TRUE

IsArray(val) == val.k = "arr"

\* {...a, ...b}: the keys of both, b's value where both have the key
Spread(a, b) == [key \in DOMAIN a \cup DOMAIN b |-> IF key \in DOMAIN b THEN b[key] ELSE a[key]]

\* the own enumerable properties {...val} copies: none for null and undefined
OwnProps(val) == IF val.k = "obj" THEN val.v ELSE EmptyObj

\* obj with key set to val / with key deleted
SetKey(f, key, val) == [x \in DOMAIN f \cup {key} |-> IF x = key THEN val ELSE f[x]]
DeleteKey(f, key) == [x \in DOMAIN f \ {key} |-> f[x]]

RECURSIVE Dedupe(_)
\* [...new Set(seq)]: first occurrences, in order
Dedupe(seq) ==
  IF seq = <<>> THEN <<>>
  ELSE LET front == Dedupe(SubSeq(seq, 1, Len(seq) - 1))
           last == seq[Len(seq)]
       IN IF \E i \in 1..Len(front) : front[i] = last THEN front ELSE Append(front, last)

(***************************************************************************)
(* sanitizeSchema (mcp-proxy-server.ts 681-738)                            *)
(***************************************************************************)
\* one sub-schema merged into result: its properties spread over result's,
\* its required array appended to result's as a set
MergeSub(result, sub) ==
  LET withProps ==
        IF Truthy(Get(sub, "properties"))
        THEN SetKey(result, "properties",
                    Obj(Spread(IF "properties" \in DOMAIN result /\ result["properties"].k = "obj"
                               THEN result["properties"].v ELSE EmptyObj,
                               OwnProps(Get(sub, "properties")))))
        ELSE result
  IN IF IsArray(Get(sub, "required"))
     THEN SetKey(withProps, "required",
                 Arr(Dedupe((IF "required" \in DOMAIN withProps /\ IsArray(withProps["required"])
                             THEN withProps["required"].v ELSE <<>>)
                            \o Get(sub, "required").v)))
     ELSE withProps

RECURSIVE MergeAll(_, _, _)
MergeAll(result, subs, i) ==
  IF i > Len(subs) THEN result ELSE MergeAll(MergeSub(result, subs[i]), subs, i + 1)

DefaultType(result) ==
  IF "type" \in DOMAIN result /\ Truthy(result["type"]) THEN result
  ELSE SetKey(result, "type", Str("object"))

\* reading sub.properties of a null or undefined sub-schema throws a TypeError
ReadThrows(sub) == sub.k \in {"null", "undefined"}

\* lines 687-703
FlattenAllOf(result) ==
  IF "allOf" \in DOMAIN result /\ IsArray(result["allOf"])
  THEN DefaultType(DeleteKey(MergeAll(result, result["allOf"].v, 1), "allOf"))
  ELSE result

\* lines 707-724, for one keyword
FlattenFirst(result, keyword) ==
  IF keyword \in DOMAIN result /\ IsArray(result[keyword])
  THEN LET variants == result[keyword].v
           merged == IF Len(variants) > 0 THEN MergeSub(result, variants[1]) ELSE result
       IN DefaultType(DeleteKey(merged, keyword))
  ELSE result

\* the node after the three composition keywords were handled (lines 684-725)
Flatten(schema) ==
  FlattenFirst(FlattenFirst(FlattenAllOf(OwnProps(schema)), "oneOf"), "anyOf")

\* a TypeError raised while the node itself is handled (lines 689-690, 710-711)
FlattenThrows(schema) ==
  LET r0 == OwnProps(schema)
      allOfThrows == "allOf" \in DOMAIN r0 /\ IsArray(r0["allOf"])
                     /\ \E i \in 1..Len(r0["allOf"].v) : ReadThrows(r0["allOf"].v[i])
      firstThrows(r, keyword) ==
        keyword \in DOMAIN r /\ IsArray(r[keyword]) /\ Len(r[keyword].v) > 0
        /\ ReadThrows(r[keyword].v[1])
  IN allOfThrows
     \/ firstThrows(r0, "oneOf")
     \/ firstThrows(r0, "anyOf")

NestedKeysNone(result) == {}
\* the nested property schemas line 732 recurses into
NestedKeys(result) ==
  IF "properties" \in DOMAIN result /\ result["properties"].k = "obj"
  THEN {key \in DOMAIN result["properties"].v : result["properties"].v[key].k = "obj"}
  ELSE {}

RECURSIVE SanitizeThrows(_)
SanitizeThrows(schema) ==
  FlattenThrows(schema)
  \/ LET result == Flatten(schema)
     IN \E key \in NestedKeys(result) : SanitizeThrows(result["properties"].v[key])

RECURSIVE sanitizeSchema(_)
\* the object sanitizeSchema returns when it does not throw
sanitizeSchema(schema) ==
  LET result == Flatten(schema)
  IN IF "properties" \in DOMAIN result /\ result["properties"].k = "obj"
     THEN Obj(SetKey(result, "properties",
                     Obj([key \in DOMAIN result["properties"].v |->
                            IF key \in NestedKeys(result)
                            THEN sanitizeSchema(result["properties"].v[key])
                            ELSE result["properties"].v[key]])))
     ELSE Obj(result)

(***************************************************************************)
(* The tool registry: a Map<string, ToolRegistryEntry> kept as the sequence *)
(* of its values in insertion order (mcp-proxy-server.ts 375-380, 396)     *)
(***************************************************************************)
MapHas(reg, name) == \E i \in 1..Len(reg) : reg[i].uniqueName = name

\* Map.get: the entry, or Undefined
MapGet(reg, name) ==
  IF MapHas(reg, name)
  THEN reg[CHOOSE i \in 1..Len(reg) : reg[i].uniqueName = name]
  ELSE Undefined

\* Map.set: a present key keeps its position and takes the new value
MapSet(reg, entry) ==
  IF MapHas(reg, entry.uniqueName)
  THEN [i \in 1..Len(reg) |-> IF reg[i].uniqueName = entry.uniqueName THEN entry ELSE reg[i]]
  ELSE Append(reg, entry)

RECURSIVE Flat(_)
\* Array.prototype.flat of a sequence of sequences
Flat(seqs) == IF seqs = <<>> THEN <<>> ELSE Head(seqs) \o Flat(Tail(seqs))

\* the (tool, server) pairs the two nested loops of rebuildRegistryFromLive visit
LiveTools(servers) ==
  Flat([s \in 1..Len(servers) |->
          [j \in 1..Len(servers[s].tools) |->
             [name |-> servers[s].tools[j].name,
              description |-> servers[s].tools[j].description,
              inputSchema |-> servers[s].tools[j].inputSchema,
              serverName |-> servers[s].mcpServerName]]])

\* pass 1: how often the name occurs among all tools
NameCount(tools, name) == Cardinality({i \in 1..Len(tools) : tools[i].name = name})

\* pass 2: the key of the i-th tool
SuffixFirstKept(tools, i) ==
  IF \E j \in 1..(i - 1) : tools[j].name = tools[i].name
  THEN tools[i].name \o "_" \o tools[i].serverName
  ELSE tools[i].name

UniqueName(tools, i) ==
  IF NameCount(tools, tools[i].name) > 1
  THEN tools[i].name \o "_" \o tools[i].serverName
  ELSE tools[i].name

RegistryEntryRaw(tools, i) ==
  [uniqueName |-> UniqueName(tools, i),
   originalName |-> tools[i].name,
   serverName |-> tools[i].serverName,
   toolDef |-> [name |-> UniqueName(tools, i),
                description |-> tools[i].description,
                inputSchema |-> tools[i].inputSchema]]

RegistryEntry(tools, i) ==
  [uniqueName |-> UniqueName(tools, i),
   originalName |-> tools[i].name,
   serverName |-> tools[i].serverName,
   toolDef |-> [name |-> UniqueName(tools, i),
                description |-> tools[i].description,
                inputSchema |-> sanitizeSchema(tools[i].inputSchema)]]

RECURSIVE RegistryLoop(_, _, _)
\* pass 2 from the i-th tool on; a throwing sanitizeSchema leaves the Map as
\* the loop had it, and the exception leaves the rebuild
RegistryLoop(tools, i, reg) ==
  IF i > Len(tools) THEN [reg |-> reg, threw |-> FALSE]
  ELSE IF SanitizeThrows(tools[i].inputSchema) THEN [reg |-> reg, threw |-> TRUE]
  ELSE RegistryLoop(tools, i + 1, MapSet(reg, RegistryEntry(tools, i)))

rebuildRegistryFromCache(tools) == RegistryLoop(tools, 1, <<>>)

rebuildRegistryFromLive(servers) == RegistryLoop(LiveTools(servers), 1, <<>>)

\* Array.from(toolRegistry.values()).map(e => e.toolDef)
ToolDefs(reg) == [i \in 1..Len(reg) |-> reg[i].toolDef]

(***************************************************************************)
(* Bounds and program constants                                            *)
(***************************************************************************)
MaxCallers == 1          \* concurrent tools/call invocations
MaxTicks == 2            \* how far the clock runs
MaxServers == 2          \* servers of a discovery result (registry specification)
MaxToolsPerServer == 2   \* tools one server reports (registry specification)
MaxWaiters == 2          \* concurrent tools/call invocations (fan-out specification)
MaxBackends == 3         \* server configurations one discoverAll call visits
MaxForwarderCallers == 2 \* concurrent ToolForwarder.callTool invocations
MaxConnections == 2      \* Clients one ToolForwarder connects in a run
MaxTokenCallers == 2     \* concurrent TokenCache.getToken invocations
MaxRefreshes == 2        \* refreshFn invocations in a run
MaxSubSchemas == 2       \* sub-schemas in one allOf, oneOf or anyOf list

CALL_TIMEOUT_MS == 30000
REFRESH_BUFFER_SECONDS == 300
DEFAULT_LIFETIME_SECONDS == 3600
MAX_CACHE_AGE_MS == 86400000

TickMs == CALL_TIMEOUT_MS \div 2
StartTime == 2 * MAX_CACHE_AGE_MS
Callers == 1..MaxCallers
Waiters == 1..MaxWaiters

(***************************************************************************)
(* The inputs: schemas, tools, discovery results, cache files, requests    *)
(***************************************************************************)
StringType == Obj([type |-> Str("string")])
PlainSchema == Obj([type |-> Str("object"), properties |-> Obj([q |-> StringType])])
AllOfSchema ==
  Obj([allOf |-> Arr(<<Obj([properties |-> Obj([a |-> StringType]), required |-> Arr(<<Str("a")>>)]),
                       Obj([properties |-> Obj([b |-> StringType]), required |-> Arr(<<Str("b")>>)])>>)])
NullSubSchema == Obj([allOf |-> Arr(<<Null>>)])

Tool(name, schema) == [name |-> name, description |-> Str("d"), inputSchema |-> schema]
Srv(name, tools) == [mcpServerName |-> name, tools |-> tools]
CachedTool(name, server, schema) ==
  [name |-> name, description |-> Str("d"), inputSchema |-> schema, serverName |-> server]

LiveEmpty == <<>>
LiveNoTools == <<Srv("A", <<>>)>>
LiveOne == <<Srv("A", <<Tool("t", PlainSchema)>>)>>
LiveCollide == <<Srv("A", <<Tool("t", AllOfSchema)>>), Srv("B", <<Tool("t", PlainSchema)>>)>>
LiveMalformed == <<Srv("A", <<Tool("t", PlainSchema), Tool("u", NullSubSchema)>>)>>
LiveChoices == {LiveEmpty, LiveNoTools, LiveOne, LiveCollide, LiveMalformed}

FailureMessages == {"Gateway discovery failed: 401 Unauthorized", ""}
SaveFailure == "EACCES: permission denied, open tools-cache.json"
SanitizeFailure == "Cannot read properties of null (reading 'properties')"

CacheTwo == <<CachedTool("t", "A", PlainSchema), CachedTool("t", "B", AllOfSchema)>>
FileAbsent == [state |-> "absent", timestamp |-> 0, tools |-> <<>>]
FileCorrupt == [state |-> "corrupt", timestamp |-> 0, tools |-> <<>>]
File(timestamp, tools) == [state |-> "json", timestamp |-> timestamp, tools |-> tools]
InitialFiles ==
  {FileAbsent, FileCorrupt,
   File(StartTime - MAX_CACHE_AGE_MS, CacheTwo),
   File(StartTime - MAX_CACHE_AGE_MS - 1, CacheTwo),
   File(StartTime, <<>>)}

SignInName == "agent365_sign_in_status"
ConnectionName == "agent365_connection_status"
CallNames == {"t", "t_B", SignInName, ConnectionName, "nope"}
CallArgs == {Undefined, Obj([x |-> Str("1")])}

(***************************************************************************)
(* Disk cache (src/unnamed/part_001 122-162)                               *)
(***************************************************************************)
NullCache == [present |-> FALSE, tools |-> <<>>]
SomeCache(tools) == [present |-> TRUE, tools |-> tools]

\* a load that does not look at the age of the file
loadToolsCacheAnyAge(file, t) ==
  IF file.state # "json" THEN NullCache ELSE SomeCache(file.tools)

\* loadToolsCache at time t: null for a missing, unparseable or stale file
loadToolsCache(file, t) ==
  IF file.state # "json" THEN NullCache
  ELSE IF t - file.timestamp > MAX_CACHE_AGE_MS THEN NullCache
  ELSE SomeCache(file.tools)

\* the file saveToolsCache writes at time t
saveToolsCache(tools, t) == File(t, tools)

\* the CachedTool records runDiscovery derives from the registry (533-540)
FreshTools(reg) ==
  [i \in 1..Len(reg) |->
     [name |-> reg[i].originalName,
      description |-> reg[i].toolDef.description,
      inputSchema |-> reg[i].toolDef.inputSchema,
      serverName |-> reg[i].serverName]]

(***************************************************************************)
(* Responses                                                               *)
(***************************************************************************)
Text(t) == [content |-> <<[type |-> "text", text |-> t]>>]
EmptyProps == [type |-> "object", properties |-> EmptyObj]

ConnectionStatusTool(message) ==
  [name |-> ConnectionName,
   description |-> Str("Agent 365 Bridge connection failed: " \o message),
   inputSchema |-> EmptyProps]
SignInStatusTool ==
  [name |-> SignInName,
   description |-> Str("Agent 365 Bridge setup required. Run 'npm run login' to set up."),
   inputSchema |-> EmptyProps]

SignInText == Text("Please run 'npm run login' in the terminal to set up Agent 365.")
NotFoundText(name) == Text("Error: Tool '" \o name \o "' not found.")
TimeoutText == Text("Timeout waiting for Agent 365 connection.")
ServerNotFoundText(server) == Text("Error: Server '" \o server \o "' not found.")

\* the answer of the cache-only version of the handler to a call naming a
\* placeholder (200-225)
PlaceholderStatus(complete, err) ==
  IF complete /\ ~(err # "null" /\ err # "")
  THEN Text("Agent 365 is connected! Tools are ready to use.")
  ELSE IF err # "null" /\ err # ""
  THEN Text("Connection failed: " \o err \o " Run 'npm run login' to set up.")
  ELSE Text("Agent 365 is still connecting. Please wait a moment and try again.")

ArgText(args) == IF "x" \in DOMAIN args.v THEN "{x:1}" ELSE "{}"
\* what the backend answers, and what callTool renders when the call throws
BackendContent(toolName, args, server) ==
  Text(server.mcpServerName \o "/" \o toolName \o ArgText(args))
ForwarderError(toolName, server) ==
  Text("Error calling tool \"" \o toolName \o "\" on " \o server.mcpServerName \o ": fetch failed")

IdleCloseAll == [step |-> "idle", i |-> 0, client |-> 0]
IdleForwarderCall ==
  [pc |-> "idle", toolName |-> "", args |-> Undefined, server |-> Undefined,
   existing |-> 0, client |-> 0, fate |-> "none", result |-> Undefined]

\* no ToolForwarder is part of the run
NoForwarder ==
  /\ toolServers = <<>>
  /\ clients = <<>>
  /\ connections = <<>>
  /\ forwarderCalls = <<>>
  /\ forwarderReturned = IdleForwarderCall
  /\ closeAllPc = IdleCloseAll

\* no TokenCache is part of the run
NoToken == [id |-> 0, exp |-> 0]
NoTokenCache ==
  /\ token = NoToken
  /\ expiresAt = 0
  /\ pendingRefresh = 0
  /\ refreshes = <<>>
  /\ tokenCalls = <<>>
  /\ clock = 0

\* main of index.ts is not part of the run
NoExit == [code |-> "none", cause |-> "none"]
NoMain == mainPc = "none" /\ exit = NoExit
NotSanitized == [state |-> "none", value |-> Undefined]
NoSanitize == schemaArg = Undefined /\ sanitizeResult = NotSanitized

\* no ServerDiscovery.discoverAll call is part of the run
NoDiscoverAll ==
  /\ resolutionMode = "manifest"
  /\ serverConfigs = <<>>
  /\ resolved = <<>>
  /\ discoverPc = [step |-> "none", i |-> 0]
  /\ discoveryClients = {}
  /\ backendFate = <<>>

(***************************************************************************)
(* McpProxyServer: construction (mcp-proxy-server.ts 406-442)              *)
(***************************************************************************)
IdleCall ==
  [pc |-> "idle", name |-> "", args |-> Undefined, entry |-> Undefined,
   waited |-> FALSE, deadline |-> 0, sent |-> Undefined, response |-> Undefined]

NoList ==
  [answered |-> FALSE, tools |-> <<>>, complete |-> FALSE, source |-> "none",
   error |-> "null", size |-> 0]

\* the constructor's arguments: a forwarder or null, the resolved servers, and
\* whether a discovery callback is passed
ConstructorArgs ==
  {[forwarder |-> "null", servers |-> <<>>, callback |-> TRUE],
   [forwarder |-> "null", servers |-> <<>>, callback |-> FALSE]}
  \cup {[forwarder |-> "given", servers |-> s, callback |-> FALSE] : s \in LiveChoices \ {LiveEmpty}}

\* the registry the constructor leaves: the cache build, then the live build
\* of an eager construction over it
ConstructedRegistry(args, cached) ==
  LET fromCache == IF cached.present /\ Len(cached.tools) > 0
                   THEN rebuildRegistryFromCache(cached.tools)
                   ELSE [reg |-> <<>>, threw |-> FALSE]
      eager == args.forwarder # "null" /\ Len(args.servers) > 0
      fromLive == IF eager THEN rebuildRegistryFromLive(args.servers) ELSE fromCache
  IN [reg |-> fromLive.reg,
      threw |-> fromCache.threw \/ fromLive.threw,
      source |-> IF eager THEN "live"
                 ELSE IF cached.present /\ Len(cached.tools) > 0 THEN "cache" ELSE "none"]

\* the state the constructor leaves; a constructor that throws leaves no proxy
Init ==
  \E file \in InitialFiles, args \in ConstructorArgs :
    LET cached == loadToolsCache(file, StartTime)
        built == ConstructedRegistry(args, cached)
        eager == args.forwarder # "null" /\ Len(args.servers) > 0
        launched == args.callback /\ ~eager
    IN /\ ~built.threw
       /\ toolsCacheFile = file
       /\ now = StartTime
       /\ forwarder = args.forwarder
       /\ resolvedServers = args.servers
       /\ cachedTools = cached
       /\ toolRegistry = built.reg
       /\ registrySource = built.source
       /\ discoveryComplete = eager
       /\ discoveryError = "null"
       /\ discoveryDone = IF launched THEN "pending" ELSE "null"
       /\ discoveryPc = IF launched THEN "callback" ELSE "none"
       /\ callbackOutcome = IF launched THEN "pending" ELSE "none"
       /\ callbackInvocations = IF launched THEN 1 ELSE 0
       /\ notification = "none"
       /\ NoTokenCache
       /\ NoMain
       /\ NoSanitize
       /\ NoDiscoverAll
       /\ NoForwarder
       /\ calls = [c \in Callers |-> IdleCall]
       /\ lastList = NoList
       /\ delivered = IdleCall

(***************************************************************************)
(* runDiscovery (514-555)                                                  *)
(***************************************************************************)
\* the callback resolved: lines 522-541 run without suspension; a throw of the
\* rebuild or of saveToolsCache lands in the catch of lines 549-554
CallbackResolve(result, saveOk) ==
  /\ discoveryPc = "callback"
  /\ LET built == rebuildRegistryFromLive(result)
         failed == built.threw \/ ~saveOk
     IN /\ forwarder' = "live"
        /\ resolvedServers' = result
        /\ discoveryComplete' = TRUE
        /\ toolRegistry' = built.reg
        /\ registrySource' = "live"
        /\ toolsCacheFile' = IF failed THEN toolsCacheFile
                             ELSE saveToolsCache(FreshTools(built.reg), now)
        /\ discoveryError' = IF built.threw THEN SanitizeFailure
                             ELSE IF ~saveOk THEN SaveFailure ELSE discoveryError
        /\ discoveryPc' = IF failed THEN "returned" ELSE "notify"
        /\ discoveryDone' = IF failed THEN "resolved" ELSE discoveryDone
  /\ callbackOutcome' = "resolved"
  /\ UNCHANGED <<cachedTools, now, calls, lastList, delivered>>
  /\ UNCHANGED otherVars

\* a runDiscovery whose outer catch also takes a throw of the notification
NotifyReturnRecords(notified) ==
  /\ discoveryPc = "notify"
  /\ notification' = IF notified THEN "sent" ELSE "threw"
  /\ discoveryError' = IF notified THEN discoveryError ELSE "Not connected"
  /\ discoveryPc' = "returned"
  /\ discoveryDone' = "resolved"
  /\ UNCHANGED <<forwarder, resolvedServers, toolRegistry, cachedTools, discoveryComplete,
                 callbackOutcome, toolsCacheFile, now, calls, lastList,
                 delivered, registrySource>>
  /\ UNCHANGED <<callbackInvocations, componentVars>>

\* sendToolListChanged returned or threw (543-548, the inner catch is empty):
\* either way runDiscovery returns
NotifyReturn(notified) ==
  /\ discoveryPc = "notify"
  /\ notification' = IF notified THEN "sent" ELSE "threw"
  /\ discoveryPc' = "returned"
  /\ discoveryDone' = "resolved"
  /\ UNCHANGED <<forwarder, resolvedServers, toolRegistry, cachedTools, discoveryComplete,
                 discoveryError, callbackOutcome, toolsCacheFile, now, calls, lastList,
                 delivered, registrySource>>
  /\ UNCHANGED <<callbackInvocations, componentVars>>

\* a runDiscovery without its outer catch: the rejection of the callback
\* rejects the promise of the task
CallbackRejectPropagates(message) ==
  /\ discoveryPc = "callback"
  /\ discoveryPc' = "returned"
  /\ discoveryDone' = "rejected"
  /\ callbackOutcome' = "rejected"
  /\ UNCHANGED <<forwarder, resolvedServers, toolRegistry, cachedTools, toolsCacheFile,
                 discoveryComplete, discoveryError, now, calls, lastList, delivered,
                 registrySource>>
  /\ UNCHANGED otherVars

CallbackRejectClears(message) ==
  /\ discoveryPc = "callback"
  /\ discoveryError' = message
  /\ discoveryComplete' = TRUE
  /\ discoveryPc' = "returned"
  /\ discoveryDone' = "resolved"
  /\ callbackOutcome' = "rejected"
  /\ toolRegistry' = <<>>
  /\ UNCHANGED <<forwarder, resolvedServers, cachedTools, toolsCacheFile,
                 now, calls, lastList, delivered, registrySource>>
  /\ UNCHANGED otherVars

CallbackRejectRetries(message) ==
  /\ discoveryPc = "callback"
  /\ discoveryError' = message
  /\ callbackOutcome' = "pending"
  /\ callbackInvocations' = callbackInvocations + 1
  /\ UNCHANGED <<notification, componentVars>>
  /\ UNCHANGED <<forwarder, resolvedServers, toolRegistry, cachedTools, toolsCacheFile,
                 discoveryComplete, discoveryPc, discoveryDone,
                 now, calls, lastList, delivered, registrySource>>

\* the callback rejected: the catch of lines 549-554
CallbackReject(message) ==
  /\ discoveryPc = "callback"
  /\ discoveryError' = message
  /\ discoveryComplete' = TRUE
  /\ discoveryPc' = "returned"
  /\ discoveryDone' = "resolved"
  /\ callbackOutcome' = "rejected"
  /\ UNCHANGED <<forwarder, resolvedServers, toolRegistry, cachedTools, toolsCacheFile,
                 now, calls, lastList, delivered, registrySource>>
  /\ UNCHANGED otherVars

(***************************************************************************)
(* tools/list (574-609)                                                    *)
(***************************************************************************)
\* a JavaScript string or null as a condition
ErrorSet(err) == err # "null" /\ err # ""

\* a handler without the placeholder branches
ListToolsResponseBare(reg, err) == ToolDefs(reg)

ListToolsResponse(reg, err) ==
  IF Len(reg) > 0 THEN ToolDefs(reg)
  ELSE IF ErrorSet(err) THEN <<ConnectionStatusTool(err)>>
  ELSE <<SignInStatusTool>>

\* the handler has no await: it answers in the step that receives the request
ListToolsBlocksUntilComplete(complete) == complete
ListToolsReady(complete) == TRUE

\* a tools/list handler that also marks discovery complete
ListToolsMarksComplete ==
  /\ lastList' = [answered |-> TRUE,
                  tools |-> ListToolsResponse(toolRegistry, discoveryError),
                  complete |-> discoveryComplete,
                  source |-> registrySource,
                  error |-> discoveryError,
                  size |-> Len(toolRegistry)]
  /\ discoveryComplete' = TRUE
  /\ UNCHANGED <<forwarder, resolvedServers, toolRegistry, cachedTools, discoveryDone,
                 discoveryError, discoveryPc, callbackOutcome,
                 toolsCacheFile, now, calls, delivered, registrySource>>
  /\ UNCHANGED otherVars

ListTools ==
  /\ ListToolsReady(discoveryComplete)
  /\ lastList' = [answered |-> TRUE,
                  tools |-> ListToolsResponse(toolRegistry, discoveryError),
                  complete |-> discoveryComplete,
                  source |-> registrySource,
                  error |-> discoveryError,
                  size |-> Len(toolRegistry)]
  /\ UNCHANGED <<forwarder, resolvedServers, toolRegistry, cachedTools, discoveryDone,
                 discoveryComplete, discoveryError, discoveryPc, callbackOutcome,
                 toolsCacheFile, now, calls, delivered, registrySource>>
  /\ UNCHANGED otherVars

(***************************************************************************)
(* tools/call (611-658) and waitForDiscovery (557-571)                     *)
(***************************************************************************)
FindServerOrFirst(servers, serverName) ==
  IF \E i \in 1..Len(servers) : servers[i].mcpServerName = serverName
  THEN servers[CHOOSE i \in 1..Len(servers) :
                 /\ servers[i].mcpServerName = serverName
                 /\ \A j \in 1..(i - 1) : servers[j].mcpServerName # serverName]
  ELSE IF Len(servers) > 0 THEN Head(servers)
  ELSE Undefined

\* resolvedServers.find(s => s.config.mcpServerName === serverName)
FindServer(servers, serverName) ==
  IF \E i \in 1..Len(servers) : servers[i].mcpServerName = serverName
  THEN servers[CHOOSE i \in 1..Len(servers) :
                 /\ servers[i].mcpServerName = serverName
                 /\ \A j \in 1..(i - 1) : servers[j].mcpServerName # serverName]
  ELSE Undefined

\* args ?? {}
ArgsOrEmpty(args) == IF args.k \in {"undefined", "null"} THEN Obj(EmptyObj) ELSE args

\* what the handler passes to forwarder.callTool (652-657)
SentExternalName(call, target) ==
  [toolName |-> call.name, args |-> ArgsOrEmpty(call.args), server |-> target]
ForwardRequest(call, target) ==
  [toolName |-> call.entry.originalName, args |-> ArgsOrEmpty(call.args), server |-> target]

\* steps 3 and 4 of the handler, once a forwarder exists (640-657)
Route(call, servers) ==
  LET target == FindServer(servers, call.entry.serverName)
  IN IF target = Undefined
     THEN [call EXCEPT !.pc = "done", !.response = ServerNotFoundText(call.entry.serverName)]
     ELSE [call EXCEPT !.pc = "forwarding", !.sent = ForwardRequest(call, target)]

CallToolStartWaitsFirst(name, args) ==
  LET call == [IdleCall EXCEPT !.name = name, !.args = args]
      entry == MapGet(toolRegistry, name)
      found == [call EXCEPT !.entry = entry]
  IN IF name = SignInName THEN [call EXCEPT !.pc = "done", !.response = SignInText]
     ELSE IF forwarder = "null" /\ ~discoveryComplete /\ discoveryDone # "null"
     THEN [found EXCEPT !.pc = "waiting", !.waited = TRUE,
                        !.deadline = now + CALL_TIMEOUT_MS]
     ELSE IF entry = Undefined
     THEN [call EXCEPT !.pc = "done", !.response = NotFoundText(name)]
     ELSE IF forwarder # "null" THEN Route(found, resolvedServers)
     ELSE [found EXCEPT !.pc = "done", !.response = TimeoutText]

\* the handler up to its first suspension
CallToolStart(name, args) ==
  LET call == [IdleCall EXCEPT !.name = name, !.args = args]
      entry == MapGet(toolRegistry, name)
      found == [call EXCEPT !.entry = entry]
  IN IF name = SignInName THEN [call EXCEPT !.pc = "done", !.response = SignInText]
     ELSE IF entry = Undefined
     THEN [call EXCEPT !.pc = "done", !.response = NotFoundText(name)]
     ELSE IF forwarder # "null" THEN Route(found, resolvedServers)
     ELSE IF discoveryComplete \/ discoveryDone = "null"
     THEN [found EXCEPT !.pc = "done", !.response = TimeoutText]
     ELSE [found EXCEPT !.pc = "waiting", !.waited = TRUE,
                        !.deadline = now + CALL_TIMEOUT_MS]

\* a handler invocation that returned leaves the slot; one that suspended stays
Settle(c, call) ==
  IF call.pc = "done"
  THEN /\ calls' = [calls EXCEPT ![c] = IdleCall]
       /\ delivered' = call
  ELSE /\ calls' = [calls EXCEPT ![c] = call]
       /\ delivered' = delivered

\* the slots are interchangeable, and a new request takes the first free one
CallTool(c, name, args) ==
  /\ calls[c].pc = "idle"
  /\ \A d \in 1..(c - 1) : calls[d].pc # "idle"
  /\ Settle(c, CallToolStart(name, args))
  /\ UNCHANGED <<forwarder, resolvedServers, toolRegistry, cachedTools, discoveryDone,
                 discoveryComplete, discoveryError, discoveryPc, callbackOutcome,
                 toolsCacheFile, now, lastList, registrySource>>
  /\ UNCHANGED otherVars

\* Promise.race settled by discoveryDone: ready is true (565-570, 633)
WaitDone(c) ==
  /\ calls[c].pc = "waiting"
  /\ discoveryDone = "resolved"
  /\ Settle(c, IF forwarder = "null"
               THEN [calls[c] EXCEPT !.pc = "done", !.response = TimeoutText]
               ELSE Route(calls[c], resolvedServers))
  /\ UNCHANGED <<forwarder, resolvedServers, toolRegistry, cachedTools, discoveryDone,
                 discoveryComplete, discoveryError, discoveryPc, callbackOutcome,
                 toolsCacheFile, now, lastList, registrySource>>
  /\ UNCHANGED otherVars

\* the timer of setTimeout(..., timeoutMs) is due
TimerAlwaysDue(call, t) == TRUE
TimerNeverDue(call, t) == FALSE
TimerDue(call, t) == t >= call.deadline

WaitTimeoutCancels(c) ==
  /\ calls[c].pc = "waiting"
  /\ discoveryDone = "pending"
  /\ TimerDue(calls[c], now)
  /\ Settle(c, [calls[c] EXCEPT !.pc = "done", !.response = TimeoutText])
  /\ discoveryDone' = "resolved"
  /\ discoveryPc' = "returned"
  /\ discoveryComplete' = TRUE
  /\ UNCHANGED <<forwarder, resolvedServers, toolRegistry, cachedTools,
                 discoveryError, callbackOutcome,
                 toolsCacheFile, now, lastList, registrySource>>
  /\ UNCHANGED otherVars

\* Promise.race settled by the timer: ready is false (561-563, 633-637)
WaitTimeout(c) ==
  /\ calls[c].pc = "waiting"
  /\ discoveryDone = "pending"
  /\ TimerDue(calls[c], now)
  /\ Settle(c, [calls[c] EXCEPT !.pc = "done", !.response = TimeoutText])
  /\ UNCHANGED <<forwarder, resolvedServers, toolRegistry, cachedTools, discoveryDone,
                 discoveryComplete, discoveryError, discoveryPc, callbackOutcome,
                 toolsCacheFile, now, lastList, registrySource>>
  /\ UNCHANGED otherVars

\* ToolForwarder.callTool (configuration.ts 170-208) with a target server:
\* the backend's content, or the error block of the catch
ForwarderResult(sent, ok) ==
  IF ok THEN BackendContent(sent.toolName, sent.args, sent.server)
  ELSE ForwarderError(sent.toolName, sent.server)

\* the handler returns what callTool resolved to (653-657)
HandlerReturn(result) == result

ForwarderReturn(c, ok) ==
  /\ calls[c].pc = "forwarding"
  /\ Settle(c, [calls[c] EXCEPT !.pc = "done",
                                !.response = HandlerReturn(ForwarderResult(calls[c].sent, ok))])
  /\ UNCHANGED <<forwarder, resolvedServers, toolRegistry, cachedTools, discoveryDone,
                 discoveryComplete, discoveryError, discoveryPc, callbackOutcome,
                 toolsCacheFile, now, lastList, registrySource>>
  /\ UNCHANGED otherVars

\* time passes
Tick ==
  /\ now < StartTime + MaxTicks * TickMs
  /\ now' = now + TickMs
  /\ UNCHANGED <<forwarder, resolvedServers, toolRegistry, cachedTools, discoveryDone,
                 discoveryComplete, discoveryError, discoveryPc, callbackOutcome,
                 toolsCacheFile, calls, lastList, delivered, registrySource>>
  /\ UNCHANGED otherVars

Next ==
  \/ \E result \in LiveChoices, saveOk \in BOOLEAN : CallbackResolve(result, saveOk)
  \/ \E notified \in BOOLEAN : NotifyReturn(notified)
  \/ \E message \in FailureMessages : CallbackReject(message)
  \/ ListTools
  \/ \E c \in Callers, name \in CallNames, args \in CallArgs : CallTool(c, name, args)
  \/ \E c \in Callers : WaitDone(c)
  \/ \E c \in Callers : WaitTimeout(c)
  \/ \E c \in Callers, ok \in BOOLEAN : ForwarderReturn(c, ok)
  \/ Tick

Spec == Init /\ [][Next]_vars

(***************************************************************************)
(* Several concurrent tools/call invocations on one lazily constructed      *)
(* proxy: new McpProxyServer(null, [], discoveryCallback) over a fresh      *)
(* cache file, so that registered names exist before discovery returns     *)
(***************************************************************************)
FanOutFile == File(StartTime - MAX_CACHE_AGE_MS, CacheTwo)
FanOutResults == {LiveOne, LiveCollide}
FanOutNames == {"t_B"}
FanOutArgs == {Undefined}

FanOutInit ==
  LET cached == loadToolsCache(FanOutFile, StartTime)
      built == ConstructedRegistry([forwarder |-> "null", servers |-> <<>>, callback |-> TRUE],
                                   cached)
  IN /\ toolsCacheFile = FanOutFile
     /\ now = StartTime
     /\ forwarder = "null"
     /\ resolvedServers = <<>>
     /\ cachedTools = cached
     /\ toolRegistry = built.reg
     /\ registrySource = built.source
     /\ discoveryComplete = FALSE
     /\ discoveryError = "null"
     /\ discoveryDone = "pending"
     /\ discoveryPc = "callback"
     /\ callbackOutcome = "pending"
     /\ callbackInvocations = 1
     /\ notification = "none"
     /\ NoTokenCache
     /\ NoMain
     /\ NoSanitize
     /\ NoDiscoverAll
     /\ NoForwarder
     /\ calls = [c \in Waiters |-> IdleCall]
     /\ lastList = NoList
     /\ delivered = IdleCall

FanOutNext ==
  \/ \E result \in FanOutResults, saveOk \in BOOLEAN : CallbackResolve(result, saveOk)
  \/ \E notified \in BOOLEAN : NotifyReturn(notified)
  \/ \E message \in FailureMessages : CallbackReject(message)
  \/ ListTools
  \/ \E c \in Waiters, name \in FanOutNames, args \in FanOutArgs : CallTool(c, name, args)
  \/ \E c \in Waiters : WaitDone(c)
  \/ \E c \in Waiters : WaitTimeout(c)
  \/ \E c \in Waiters, ok \in BOOLEAN : ForwarderReturn(c, ok)
  \/ Tick

SpecFanOut == FanOutInit /\ [][FanOutNext]_vars

(***************************************************************************)
(* The registry builds on their own: every discovery result within the     *)
(* bounds, built from the live servers (constructor 426-429) and from the  *)
(* cache records the login script writes for them (constructor 421-423)    *)
(***************************************************************************)
SeqsUpTo(S, n) == UNION {[1..k -> S] : k \in 0..n}
RegistryToolNames == {"t", "t_A"}
RegistryServerNames == {"A", "B"}
RegistryServerLists ==
  SeqsUpTo({Srv(s, tools) : s \in RegistryServerNames,
                            tools \in SeqsUpTo({Tool(n, PlainSchema) : n \in RegistryToolNames},
                                               MaxToolsPerServer)},
           MaxServers)

\* the CachedTool records of scripts/login.ts 60-67
LoginTools(servers) == LiveTools(servers)

RegistryInit ==
  /\ resolvedServers \in RegistryServerLists
  /\ cachedTools = SomeCache(LoginTools(resolvedServers))
  /\ toolRegistry = <<>>
  /\ registrySource = "none"
  /\ forwarder = "given"
  /\ discoveryDone = "null"
  /\ discoveryComplete = FALSE
  /\ discoveryError = "null"
  /\ discoveryPc = "none"
  /\ callbackOutcome = "none"
  /\ callbackInvocations = 0
  /\ notification = "none"
  /\ NoTokenCache
  /\ NoMain
  /\ NoSanitize
  /\ NoDiscoverAll
  /\ NoForwarder
  /\ toolsCacheFile = File(StartTime, cachedTools.tools)
  /\ now = StartTime
  /\ calls = [c \in Callers |-> IdleCall]
  /\ lastList = NoList
  /\ delivered = IdleCall

RegistryBuildCache ==
  /\ registrySource = "none"
  /\ cachedTools.present /\ Len(cachedTools.tools) > 0
  /\ toolRegistry' = rebuildRegistryFromCache(cachedTools.tools).reg
  /\ registrySource' = "cache"
  /\ UNCHANGED <<forwarder, resolvedServers, cachedTools, discoveryDone, discoveryComplete,
                 discoveryError, discoveryPc, callbackOutcome, toolsCacheFile, now, calls,
                 lastList, delivered>>
  /\ UNCHANGED otherVars

RegistryBuildLive ==
  /\ registrySource \in {"none", "cache"}
  /\ forwarder # "null" /\ Len(resolvedServers) > 0
  /\ discoveryComplete' = TRUE
  /\ toolRegistry' = rebuildRegistryFromLive(resolvedServers).reg
  /\ registrySource' = "live"
  /\ UNCHANGED <<forwarder, resolvedServers, cachedTools, discoveryDone,
                 discoveryError, discoveryPc, callbackOutcome, toolsCacheFile, now, calls,
                 lastList, delivered>>
  /\ UNCHANGED otherVars

RegistryNext == RegistryBuildCache \/ RegistryBuildLive

SpecRegistry == RegistryInit /\ [][RegistryNext]_vars

\* the tools the registry was last built from
SourceTools ==
  IF registrySource = "live" THEN LiveTools(resolvedServers)
  ELSE IF registrySource = "cache" THEN cachedTools.tools
  ELSE <<>>

(***************************************************************************)
(* ServerDiscovery.discoverAll (src/unnamed/part_000 25-139): one call,     *)
(* suspended at each await; the environment decides how each await ends    *)
(***************************************************************************)
BackendNames == {"A", "B", "C"}
ConfigLists == SeqsUpTo({[mcpServerName |-> n] : n \in BackendNames}, MaxBackends)

\* result.tools of each backend's listTools; C answers without a tools field
ReportedTools(serverName) ==
  IF serverName = "A" THEN <<Tool("t", PlainSchema), Tool("u", PlainSchema)>>
  ELSE IF serverName = "B" THEN <<Tool("t", AllOfSchema)>>
  ELSE <<>>

\* buildServerUrl for a config without url (91-97)
buildServerUrl(config) == "https://endpoint/agents/servers/" \o config.mcpServerName \o "/"

\* the DiscoveredTool records of discoverTools (130-135)
DiscoveredTools(serverName) ==
  LET tools == ReportedTools(serverName)
  IN [j \in 1..Len(tools) |->
        [name |-> tools[j].name, description |-> tools[j].description,
         inputSchema |-> tools[j].inputSchema, serverName |-> serverName]]

\* resolved.push({ config: serverConfig, url, tools }) (33)
ResolvedServer(config) ==
  [config |-> config, url |-> buildServerUrl(config),
   tools |-> DiscoveredTools(config.mcpServerName)]

\* a getServerConfigs that queries the gateway in every mode
ResolutionOutcomesAnyMode(mode) ==
  {"ok", "tokenThrows", "fetchThrows", "notOk", "jsonThrows"}

\* how getServerConfigs can end (46-85)
ResolutionOutcomes(mode) ==
  IF mode = "manifest" THEN {"ok"}
  ELSE {"ok", "tokenThrows", "fetchThrows", "notOk", "jsonThrows"}
ResolutionError(outcome) ==
  IF outcome = "notOk" THEN "Gateway discovery failed: 401 Unauthorized"
  ELSE IF outcome = "tokenThrows" THEN "AADSTS70016: authorization pending"
  ELSE IF outcome = "fetchThrows" THEN "fetch failed"
  ELSE "Unexpected token < in JSON"

At(step, i) == [step |-> step, i |-> i, error |-> "null"]
Threw(message) == [step |-> "threw", i |-> 0, error |-> message]

\* the for loop reaches index i: the next backend's discoverTools, or return
Visit(i, configs) == IF i > Len(configs) THEN At("returned", i) ELSE At("token", i)

DiscoverInit ==
  /\ resolutionMode \in {"manifest", "gateway"}
  /\ serverConfigs = <<>>
  /\ resolved = <<>>
  /\ discoverPc = At("configs", 0)
  /\ discoveryClients = {}
  /\ backendFate = <<>>
  /\ NoForwarder
  /\ forwarder = "null"
  /\ resolvedServers = <<>>
  /\ toolRegistry = <<>>
  /\ cachedTools = NullCache
  /\ discoveryDone = "null"
  /\ discoveryComplete = FALSE
  /\ discoveryError = "null"
  /\ discoveryPc = "none"
  /\ callbackOutcome = "none"
  /\ callbackInvocations = 0
  /\ notification = "none"
  /\ NoTokenCache
  /\ NoMain
  /\ NoSanitize
  /\ toolsCacheFile = FileAbsent
  /\ now = StartTime
  /\ calls = [c \in Callers |-> IdleCall]
  /\ lastList = NoList
  /\ delivered = IdleCall
  /\ registrySource = "none"

\* await this.getServerConfigs() (26): outside the loop's try
GetServerConfigs(outcome, configs) ==
  /\ discoverPc.step = "configs"
  /\ outcome \in ResolutionOutcomes(resolutionMode)
  /\ IF outcome = "ok"
     THEN /\ serverConfigs' = configs
          /\ discoverPc' = Visit(1, configs)
     ELSE /\ serverConfigs' = serverConfigs
          /\ discoverPc' = Threw(ResolutionError(outcome))
  /\ UNCHANGED <<resolutionMode, resolved, discoveryClients, backendFate>>
  /\ UNCHANGED outsideDiscoverAll

FailPropagates(fate) ==
  /\ backendFate' = Append(backendFate, fate)
  /\ discoverPc' = Threw(fate)
  /\ UNCHANGED resolved

\* discoverTools threw: the catch of lines 35-37, then the next iteration
Fail(fate) ==
  /\ backendFate' = Append(backendFate, fate)
  /\ discoverPc' = Visit(discoverPc.i + 1, serverConfigs)
  /\ UNCHANGED resolved

\* await this.tokenProvider.getToken() (106)
DiscoverToken(ok) ==
  /\ discoverPc.step = "token"
  /\ IF ok
     THEN /\ discoverPc' = At("connect", discoverPc.i)
          /\ UNCHANGED <<resolved, backendFate>>
     ELSE Fail("tokenFails")
  /\ UNCHANGED <<resolutionMode, serverConfigs, discoveryClients>>
  /\ UNCHANGED outsideDiscoverAll

\* await client.connect(transport) (127)
DiscoverConnect(ok) ==
  /\ discoverPc.step = "connect"
  /\ IF ok
     THEN /\ discoverPc' = At("list", discoverPc.i)
          /\ discoveryClients' = discoveryClients \cup {discoverPc.i}
          /\ UNCHANGED <<resolved, backendFate>>
     ELSE /\ Fail("connectFails")
          /\ UNCHANGED discoveryClients
  /\ UNCHANGED <<resolutionMode, serverConfigs>>
  /\ UNCHANGED outsideDiscoverAll

\* await client.listTools() (129): a throw leaves discoverTools before close
DiscoverList(ok) ==
  /\ discoverPc.step = "list"
  /\ IF ok
     THEN /\ discoverPc' = At("close", discoverPc.i)
          /\ UNCHANGED <<resolved, backendFate>>
     ELSE Fail("listFails")
  /\ UNCHANGED <<resolutionMode, serverConfigs, discoveryClients>>
  /\ UNCHANGED outsideDiscoverAll

\* await client.close() (137), then the push of line 33; a close that throws
\* may or may not have released the connection
DiscoverClose(ok, stillOpen) ==
  /\ discoverPc.step = "close"
  /\ IF ok
     THEN /\ discoveryClients' = discoveryClients \ {discoverPc.i}
          /\ resolved' = Append(resolved, ResolvedServer(serverConfigs[discoverPc.i]))
          /\ backendFate' = Append(backendFate, "ok")
          /\ discoverPc' = Visit(discoverPc.i + 1, serverConfigs)
     ELSE /\ discoveryClients' = IF stillOpen THEN discoveryClients
                                 ELSE discoveryClients \ {discoverPc.i}
          /\ Fail("closeFails")
  /\ UNCHANGED <<resolutionMode, serverConfigs>>
  /\ UNCHANGED outsideDiscoverAll

DiscoverNext ==
  \/ \E outcome \in ResolutionOutcomes("gateway"), configs \in ConfigLists :
       GetServerConfigs(outcome, configs)
  \/ \E ok \in BOOLEAN : DiscoverToken(ok)
  \/ \E ok \in BOOLEAN : DiscoverConnect(ok)
  \/ \E ok \in BOOLEAN : DiscoverList(ok)
  \/ \E ok, stillOpen \in BOOLEAN : DiscoverClose(ok, stillOpen)

SpecDiscovery == DiscoverInit /\ [][DiscoverNext]_vars

(***************************************************************************)
(* ToolForwarder (src/src/config/configuration.ts 129-268): callTool and    *)
(* getOrCreateClient, suspended at each await                              *)
(***************************************************************************)
ForwarderCallers == 1..MaxForwarderCallers
ForwarderServers ==
  <<Srv("A", <<Tool("t", PlainSchema), Tool("u", PlainSchema)>>),
    Srv("B", <<Tool("t", PlainSchema)>>)>>
\* the (toolName, targetServer) pairs callTool is called with: a mapped name
\* without target, an unmapped name without target, a name with the first
\* server as target
ForwarderRequests ==
  {[toolName |-> "t", target |-> Undefined],
   [toolName |-> "nope", target |-> Undefined],
   [toolName |-> "t", target |-> Head(ForwarderServers)]}
ForwarderArgs == {Obj(EmptyObj)}

\* the server toolServerMap holds for the name: the last one that reports it
\* (148-152), or Undefined
ToolServer(servers, toolName) ==
  LET owners == {i \in 1..Len(servers) :
                   \E j \in 1..Len(servers[i].tools) : servers[i].tools[j].name = toolName}
  IN IF owners = {} THEN Undefined
     ELSE servers[CHOOSE i \in owners : \A k \in owners : k <= i]

\* Array.from(toolServerMap.keys()): the tool names in order of first insertion
MapKeys(servers) == Dedupe([i \in 1..Len(LiveTools(servers)) |-> LiveTools(servers)[i].name])

RECURSIVE Join(_)
\* keys.join(", ")
Join(names) ==
  IF names = <<>> THEN ""
  ELSE IF Len(names) = 1 THEN Head(names)
  ELSE Head(names) \o ", " \o Join(Tail(names))

UnknownToolText(toolName, servers) ==
  Text("Error: Unknown tool \"" \o toolName \o "\". Available tools: " \o Join(MapKeys(servers)))
CallToolError(toolName, server, message) ==
  Text("Error calling tool \"" \o toolName \o "\" on " \o server.mcpServerName \o ": " \o message)

\* err.message of what the awaits of callTool throw
FateMessage(fate) ==
  IF fate = "tokenFails" THEN "AADSTS70016: authorization pending"
  ELSE IF fate = "connectFails" THEN "fetch failed"
  ELSE IF fate = "notConnected" THEN "Not connected"
  ELSE "MCP error -32603: Internal error"

\* this.clients as the sequence of its [key, client] entries
ClientGet(map, key) ==
  IF \E i \in 1..Len(map) : map[i].key = key
  THEN map[CHOOSE i \in 1..Len(map) : map[i].key = key].client
  ELSE 0
ClientSet(map, key, client) ==
  IF \E i \in 1..Len(map) : map[i].key = key
  THEN [i \in 1..Len(map) |-> IF map[i].key = key THEN [key |-> key, client |-> client]
                                ELSE map[i]]
  ELSE Append(map, [key |-> key, client |-> client])

ForwarderInit ==
  /\ toolServers = ForwarderServers
  /\ clients = <<>>
  /\ connections = <<>>
  /\ forwarderCalls = [c \in ForwarderCallers |-> IdleForwarderCall]
  /\ forwarderReturned = IdleForwarderCall
  /\ closeAllPc = IdleCloseAll
  /\ NoDiscoverAll
  /\ forwarder = "given"
  /\ resolvedServers = ForwarderServers
  /\ toolRegistry = <<>>
  /\ cachedTools = NullCache
  /\ discoveryDone = "null"
  /\ discoveryComplete = FALSE
  /\ discoveryError = "null"
  /\ discoveryPc = "none"
  /\ callbackOutcome = "none"
  /\ callbackInvocations = 0
  /\ notification = "none"
  /\ NoTokenCache
  /\ NoMain
  /\ NoSanitize
  /\ toolsCacheFile = FileAbsent
  /\ now = StartTime
  /\ calls = [c \in Callers |-> IdleCall]
  /\ lastList = NoList
  /\ delivered = IdleCall
  /\ registrySource = "none"

\* a callTool invocation that settled leaves the slot; one that suspended stays
ForwarderSettle(c, call) ==
  IF call.pc \in {"returned", "raised"}
  THEN /\ forwarderCalls' = [forwarderCalls EXCEPT ![c] = IdleForwarderCall]
       /\ forwarderReturned' = [call EXCEPT !.existing = 0, !.client = 0]
  ELSE /\ forwarderCalls' = [forwarderCalls EXCEPT ![c] = call]
       /\ forwarderReturned' = forwarderReturned

ForwarderRethrows(call, fate) ==
  [call EXCEPT !.pc = "raised", !.fate = fate, !.result = Text(FateMessage(fate))]

\* the catch of callTool (196-207)
ForwarderCatch(call, fate) ==
  [call EXCEPT !.pc = "returned", !.fate = fate,
               !.result = CallToolError(call.toolName, call.server, FateMessage(fate))]

\* callTool up to its first await (175-188, 215-228); the slots are
\* interchangeable, and a new invocation takes the first free one
ForwarderCallTool(c, toolName, args, target) ==
  /\ forwarderCalls[c].pc = "idle"
  /\ \A d \in 1..(c - 1) : forwarderCalls[d].pc # "idle"
  /\ Len(connections) < MaxConnections
  /\ LET server == IF target # Undefined THEN target ELSE ToolServer(toolServers, toolName)
         call == [IdleForwarderCall EXCEPT !.toolName = toolName, !.args = args,
                                           !.server = server]
         existing == ClientGet(clients, server.mcpServerName)
     IN IF server = Undefined
        THEN ForwarderSettle(c, [call EXCEPT !.pc = "returned", !.fate = "unknownTool",
                                             !.result = UnknownToolText(toolName, toolServers)])
        ELSE IF existing # 0
        THEN ForwarderSettle(c, [call EXCEPT !.pc = "closing", !.existing = existing])
        ELSE ForwarderSettle(c, [call EXCEPT !.pc = "token"])
  /\ UNCHANGED <<toolServers, clients, connections>>
  /\ UNCHANGED <<outsideForwarder, closeAllPc>>

\* client.close() on the connection i: a close that throws may or may not
\* have released the connection; the state of a connection is "open",
\* "closed", or "closeFailed" when a close threw and left it open
Closed(conns, i, ok, stillOpen) ==
  IF conns[i].state = "closed" THEN conns
  ELSE [conns EXCEPT ![i].state = IF ok \/ ~stillOpen THEN "closed" ELSE "closeFailed"]

\* await existing.close() (220-226); a close that throws is ignored
ForwarderCloseExisting(c, ok, stillOpen) ==
  /\ forwarderCalls[c].pc = "closing"
  /\ connections' = Closed(connections, forwarderCalls[c].existing, ok, stillOpen)
  /\ ForwarderSettle(c, [forwarderCalls[c] EXCEPT !.pc = "token", !.existing = 0])
  /\ UNCHANGED <<toolServers, clients>>
  /\ UNCHANGED <<outsideForwarder, closeAllPc>>

\* await this.tokenProvider.getToken() (228)
ForwarderToken(c, ok) ==
  /\ forwarderCalls[c].pc = "token"
  /\ ForwarderSettle(c, IF ok THEN [forwarderCalls[c] EXCEPT !.pc = "connect"]
                        ELSE ForwarderCatch(forwarderCalls[c], "tokenFails"))
  /\ UNCHANGED <<toolServers, clients, connections>>
  /\ UNCHANGED <<outsideForwarder, closeAllPc>>

\* await client.connect(transport), then this.clients.set(key, client) (250-252)
ForwarderConnect(c, ok) ==
  /\ forwarderCalls[c].pc = "connect"
  /\ IF ok
     THEN /\ connections' = Append(connections,
                                    [key |-> forwarderCalls[c].server.mcpServerName,
                                     state |-> "open"])
          /\ clients' = ClientSet(clients, forwarderCalls[c].server.mcpServerName,
                                  Len(connections) + 1)
          /\ ForwarderSettle(c, [forwarderCalls[c] EXCEPT !.pc = "calling",
                                                          !.client = Len(connections) + 1])
     ELSE /\ ForwarderSettle(c, ForwarderCatch(forwarderCalls[c], "connectFails"))
          /\ UNCHANGED <<clients, connections>>
  /\ UNCHANGED toolServers
  /\ UNCHANGED <<outsideForwarder, closeAllPc>>

\* how await client.callTool(...) can end (189): a Client that was closed
\* meanwhile rejects the request
BackendOutcomes(call) ==
  IF connections[call.client].state = "closed" THEN {"notConnected"}
  ELSE {"content", "noContent", "isError", "callThrows"}

\* the result callTool returns when client.callTool resolved (191-195):
\* result.content, or the JSON text of a result without content
BackendResult(call, outcome) ==
  IF outcome = "content" THEN BackendContent(call.toolName, call.args, call.server)
  ELSE IF outcome = "isError"
  THEN Text("backend " \o call.server.mcpServerName \o " rejected " \o call.toolName)
  ELSE Text("{}")

ForwarderBackend(c, outcome) ==
  /\ forwarderCalls[c].pc = "calling"
  /\ outcome \in BackendOutcomes(forwarderCalls[c])
  /\ ForwarderSettle(c, IF outcome \in {"callThrows", "notConnected"}
                        THEN ForwarderCatch(forwarderCalls[c], outcome)
                        ELSE [forwarderCalls[c] EXCEPT
                                !.pc = "returned", !.fate = outcome,
                                !.result = BackendResult(forwarderCalls[c], outcome)])
  /\ UNCHANGED <<toolServers, clients, connections>>
  /\ UNCHANGED <<outsideForwarder, closeAllPc>>

ForwarderNext ==
  \/ \E c \in ForwarderCallers, request \in ForwarderRequests, args \in ForwarderArgs :
       ForwarderCallTool(c, request.toolName, args, request.target)
  \/ \E c \in ForwarderCallers, ok, stillOpen \in BOOLEAN : ForwarderCloseExisting(c, ok, stillOpen)
  \/ \E c \in ForwarderCallers, ok \in BOOLEAN : ForwarderToken(c, ok)
  \/ \E c \in ForwarderCallers, ok \in BOOLEAN : ForwarderConnect(c, ok)
  \/ \E c \in ForwarderCallers,
        outcome \in {"content", "noContent", "isError", "callThrows", "notConnected"} :
       ForwarderBackend(c, outcome)

SpecForwarder == ForwarderInit /\ [][ForwarderNext]_vars

(***************************************************************************)
(* Shutdown (src/src/index.ts 77-85): the cleanup handler of SIGINT and    *)
(* SIGTERM awaits ToolForwarder.closeAll (configuration.ts 258-267) and    *)
(* exits, while the calls in flight go on                                  *)
(***************************************************************************)
\* closeAll up to its first await (258-267): the for-of takes the first entry of
\* this.clients and calls close on its Client; on an empty Map it goes on to
\* this.clients.clear() and returns, and the cleanup handler exits
\* (src/src/index.ts 78-82)
CloseAllStart ==
  /\ closeAllPc.step = "idle"
  /\ IF clients = <<>>
     THEN /\ closeAllPc' = [step |-> "done", i |-> 0, client |-> 0]
          /\ clients' = <<>>
     ELSE /\ closeAllPc' = [step |-> "closing", i |-> 1, client |-> clients[1].client]
          /\ UNCHANGED clients
  /\ UNCHANGED <<toolServers, connections, forwarderCalls, forwarderReturned>>
  /\ UNCHANGED outsideForwarder

\* await client.close() settles (260-264, a throw is ignored); the iterator
\* of the Map then yields the next entry as the Map is now, and after the last
\* one this.clients.clear() runs (266) and closeAll returns
CloseAllStep(ok, stillOpen) ==
  /\ closeAllPc.step = "closing"
  /\ connections' = Closed(connections, closeAllPc.client, ok, stillOpen)
  /\ IF closeAllPc.i < Len(clients)
     THEN /\ closeAllPc' = [step |-> "closing", i |-> closeAllPc.i + 1,
                            client |-> clients[closeAllPc.i + 1].client]
          /\ UNCHANGED clients
     ELSE /\ closeAllPc' = [step |-> "done", i |-> 0, client |-> 0]
          /\ clients' = <<>>
  /\ UNCHANGED <<toolServers, forwarderCalls, forwarderReturned>>
  /\ UNCHANGED outsideForwarder

\* the calls of the shutdown runs: token acquisition and connect succeed, and
\* the two requests address the two backends
ShutdownRequests == {r \in ForwarderRequests : r.toolName = "t"}
ShutdownCalls ==
  \/ \E c \in ForwarderCallers, request \in ShutdownRequests, args \in ForwarderArgs :
       ForwarderCallTool(c, request.toolName, args, request.target)
  \/ \E c \in ForwarderCallers : ForwarderCloseExisting(c, TRUE, FALSE)
  \/ \E c \in ForwarderCallers : ForwarderToken(c, TRUE)
  \/ \E c \in ForwarderCallers : ForwarderConnect(c, TRUE)
  \/ \E c \in ForwarderCallers, outcome \in {"content", "notConnected"} :
       ForwarderBackend(c, outcome)

\* the steps of the process while it runs: process.exit(0) follows the return
\* of closeAll at once (src/src/index.ts 80-81)
ShutdownNext ==
  \/ CloseAllStart
  \/ \E ok, stillOpen \in BOOLEAN : CloseAllStep(ok, stillOpen)
  \/ closeAllPc.step # "done" /\ ShutdownCalls

SpecShutdown == ForwarderInit /\ [][ShutdownNext]_vars

(***************************************************************************)
(* main (src/src/index.ts 11-91): loadConfig, await discoverAll, the        *)
(* ToolForwarder and the McpProxyServer over its result, await start, then  *)
(* the signal handlers                                                      *)
(***************************************************************************)
MainFiles == {FileAbsent, File(StartTime - MAX_CACHE_AGE_MS, CacheTwo)}
Exit(code, cause) == [code |-> code, cause |-> cause]

\* the ResolvedServer list as the servers the registry and the forwarder read
AsServers(list) ==
  [i \in 1..Len(list) |-> [mcpServerName |-> list[i].config.mcpServerName,
                           tools |-> list[i].tools]]

MainInit ==
  /\ mainPc = "config"
  /\ exit = NoExit
  /\ resolutionMode \in {"manifest", "gateway"}
  /\ serverConfigs = <<>>
  /\ resolved = <<>>
  /\ discoverPc = At("configs", 0)
  /\ discoveryClients = {}
  /\ backendFate = <<>>
  /\ NoForwarder
  /\ forwarder = "null"
  /\ resolvedServers = <<>>
  /\ toolRegistry = <<>>
  /\ cachedTools = NullCache
  /\ discoveryDone = "null"
  /\ discoveryComplete = FALSE
  /\ discoveryError = "null"
  /\ discoveryPc = "none"
  /\ callbackOutcome = "none"
  /\ callbackInvocations = 0
  /\ notification = "none"
  /\ NoTokenCache
  /\ NoSanitize
  /\ toolsCacheFile \in MainFiles
  /\ now = StartTime
  /\ calls = [c \in Callers |-> IdleCall]
  /\ lastList = NoList
  /\ delivered = IdleCall
  /\ registrySource = "none"

\* loadConfig() (15): a throw (an unparseable ToolingManifest.json) rejects
\* main, and main().catch exits with 1 (88-91)
MainLoadConfig(ok) ==
  /\ mainPc = "config"
  /\ IF ok THEN mainPc' = "discovering" /\ exit' = exit
     ELSE mainPc' = "exited" /\ exit' = Exit("1", "config")
  /\ UNCHANGED <<proxyVars, forwarderVars, outsideMain>>

\* the server lists of the startup runs: none, one backend, two backends
MainConfigLists ==
  {<<>>, <<[mcpServerName |-> "A"]>>, <<[mcpServerName |-> "A"], [mcpServerName |-> "B"]>>}

\* a step of await discovery.discoverAll() (39)
MainDiscover ==
  /\ mainPc = "discovering"
  /\ \/ \E outcome \in ResolutionOutcomes("gateway"), configs \in MainConfigLists :
          GetServerConfigs(outcome, configs)
     \/ \E ok \in BOOLEAN : DiscoverToken(ok)
     \/ \E ok \in BOOLEAN : DiscoverConnect(ok)
     \/ \E ok \in BOOLEAN : DiscoverList(ok)
     \/ \E ok, stillOpen \in BOOLEAN : DiscoverClose(ok, stillOpen)

\* discoverAll rejected: the catch of lines 40-50 exits with 1
MainDiscoveryFailed ==
  /\ mainPc = "discovering"
  /\ discoverPc.step = "threw"
  /\ mainPc' = "exited"
  /\ exit' = Exit("1", "discovery")
  /\ UNCHANGED <<proxyVars, forwarderVars, outsideMain>>

\* discoverAll returned: new ToolForwarder (71), new McpProxyServer(forwarder,
\* resolvedServers) without discoveryCallback (74), and proxy.start() up to its
\* await (75; mcp-proxy-server.ts 667-669); a throwing constructor rejects main
MainConstruct ==
  /\ mainPc = "discovering"
  /\ discoverPc.step = "returned"
  /\ LET args == [forwarder |-> "given", servers |-> AsServers(resolved), callback |-> FALSE]
         cached == loadToolsCache(toolsCacheFile, now)
         built == ConstructedRegistry(args, cached)
         eager == Len(args.servers) > 0
     IN /\ forwarder' = args.forwarder
        /\ resolvedServers' = args.servers
        /\ cachedTools' = cached
        /\ toolRegistry' = built.reg
        /\ registrySource' = built.source
        /\ discoveryComplete' = eager
        /\ toolServers' = args.servers
        /\ IF built.threw THEN mainPc' = "exited" /\ exit' = Exit("1", "construct")
           ELSE mainPc' = "starting" /\ exit' = exit
  /\ UNCHANGED <<discoveryDone, discoveryError, discoveryPc, callbackOutcome, toolsCacheFile,
                 now, calls, lastList, delivered>>
  /\ UNCHANGED <<clients, connections, forwarderCalls, forwarderReturned, closeAllPc>>
  /\ UNCHANGED outsideMain

\* await this.server.connect(transport) settled (669): the transport is
\* started and main registers the signal handlers (84-85), or main rejects
MainStart(ok) ==
  /\ mainPc = "starting"
  /\ IF ok THEN mainPc' = "serving" /\ exit' = exit
     ELSE mainPc' = "exited" /\ exit' = Exit("1", "transport")
  /\ UNCHANGED <<proxyVars, forwarderVars, outsideMain>>

\* the transport is started and the process runs
Serving == mainPc = "serving" /\ closeAllPc.step # "done"

\* a tools/list request on the started transport
MainListTools == Serving /\ ListTools

\* SIGINT or SIGTERM: cleanup up to its await of forwarder.closeAll() (78-80)
MainSignal == Serving /\ CloseAllStart

\* closeAll returned: process.exit(0) (81)
MainExit ==
  /\ mainPc = "serving"
  /\ closeAllPc.step = "done"
  /\ mainPc' = "exited"
  /\ exit' = Exit("0", "signal")
  /\ UNCHANGED <<proxyVars, forwarderVars, outsideMain>>

MainNext ==
  \/ \E ok \in BOOLEAN : MainLoadConfig(ok)
  \/ MainDiscover
  \/ MainDiscoveryFailed
  \/ MainConstruct
  \/ \E ok \in BOOLEAN : MainStart(ok)
  \/ MainListTools
  \/ MainSignal
  \/ MainExit

SpecMain == MainInit /\ [][MainNext]_vars

(***************************************************************************)
(* TokenCache (src/unnamed/part_002 10-63): getToken and refresh, suspended *)
(* at their awaits; the reactions to a settled promise run in one           *)
(* microtask drain, before any other request is received                    *)
(***************************************************************************)
TokenCallers == 1..MaxTokenCallers
TokenStart == StartTime \div 1000
TokenTickSeconds == DEFAULT_LIFETIME_SECONDS \div 2
RefreshError == "AADSTS70016: authorization pending"
IdleTokenCall ==
  [pc |-> "idle", refresh |-> 0, starter |-> FALSE, arrivedDuring |-> 0, result |-> NoToken,
   error |-> "null"]

\* the exp claims of the tokens refreshFn returns at time t: none, one hour
\* ahead, and one that is inside the refresh buffer from the start
ExpClaims(t) == {0, t + DEFAULT_LIFETIME_SECONDS, t + REFRESH_BUFFER_SECONDS}

\* extractExpiry (51-62): the exp claim, or one hour from now without one
extractExpiry(tok, t) == IF tok.exp # 0 THEN tok.exp ELSE t + DEFAULT_LIFETIME_SECONDS

\* this.token && now < this.expiresAt - REFRESH_BUFFER_SECONDS (22)
TokenValid(tok, expiry, t) == tok # NoToken /\ t + REFRESH_BUFFER_SECONDS < expiry

JoinsNever(pending) == FALSE
\* if (this.pendingRefresh) (27)
Joins(pending) == pending # 0

TokenInit ==
  /\ token = NoToken
  /\ expiresAt = 0
  /\ pendingRefresh = 0
  /\ refreshes = <<>>
  /\ tokenCalls = [c \in TokenCallers |-> IdleTokenCall]
  /\ clock = TokenStart
  /\ NoMain
  /\ NoSanitize
  /\ NoDiscoverAll
  /\ NoForwarder
  /\ forwarder = "null"
  /\ resolvedServers = <<>>
  /\ toolRegistry = <<>>
  /\ cachedTools = NullCache
  /\ discoveryDone = "null"
  /\ discoveryComplete = FALSE
  /\ discoveryError = "null"
  /\ discoveryPc = "none"
  /\ callbackOutcome = "none"
  /\ callbackInvocations = 0
  /\ notification = "none"
  /\ toolsCacheFile = FileAbsent
  /\ now = StartTime
  /\ calls = [c \in Callers |-> IdleCall]
  /\ lastList = NoList
  /\ delivered = IdleCall
  /\ registrySource = "none"

\* getToken up to its return or its await (19-33); refresh runs up to its
\* await of refreshFn() inside the same step (41)
TokenGet(c) ==
  /\ tokenCalls[c].pc # "waiting"
  /\ LET call == [IdleTokenCall EXCEPT !.arrivedDuring = pendingRefresh]
     IN IF TokenValid(token, expiresAt, clock)
        THEN /\ tokenCalls' = [tokenCalls EXCEPT ![c] = [call EXCEPT !.pc = "returned",
                                                                     !.result = token]]
             /\ UNCHANGED <<pendingRefresh, refreshes>>
        ELSE IF Joins(pendingRefresh)
        THEN /\ tokenCalls' = [tokenCalls EXCEPT ![c] = [call EXCEPT !.pc = "waiting",
                                                                     !.refresh = pendingRefresh]]
             /\ UNCHANGED <<pendingRefresh, refreshes>>
        ELSE /\ Len(refreshes) < MaxRefreshes
             /\ refreshes' = Append(refreshes, [state |-> "pending", token |-> NoToken])
             /\ pendingRefresh' = Len(refreshes) + 1
             /\ tokenCalls' = [tokenCalls EXCEPT ![c] = [call EXCEPT !.pc = "waiting",
                                                                     !.refresh = Len(refreshes) + 1,
                                                                     !.starter = TRUE]]
  /\ UNCHANGED <<token, expiresAt, clock>>
  /\ UNCHANGED outsideTokenCache

\* a getToken without its finally: a refresh that failed stays in the slot
RefreshSettleKeepsFailed(k, ok, exp) ==
  /\ k \in DOMAIN refreshes
  /\ refreshes[k].state = "pending"
  /\ exp \in ExpClaims(clock)
  /\ LET tok == [id |-> k, exp |-> exp]
     IN /\ token' = IF ok THEN tok ELSE token
        /\ expiresAt' = IF ok THEN extractExpiry(tok, clock) ELSE expiresAt
        /\ refreshes' = [refreshes EXCEPT ![k] = IF ok THEN [state |-> "resolved", token |-> tok]
                                                  ELSE [state |-> "rejected", token |-> NoToken]]
        /\ tokenCalls' = [c \in DOMAIN tokenCalls |->
                            IF tokenCalls[c].pc = "waiting" /\ tokenCalls[c].refresh = k
                            THEN IF ok THEN [tokenCalls[c] EXCEPT !.pc = "returned", !.result = tok]
                                 ELSE [tokenCalls[c] EXCEPT !.pc = "threw", !.error = RefreshError]
                            ELSE tokenCalls[c]]
  /\ pendingRefresh' = IF ok THEN 0 ELSE pendingRefresh
  /\ UNCHANGED clock
  /\ UNCHANGED outsideTokenCache

\* refreshFn() of the refresh k settled: refresh stores the token and its
\* expiry (42-44) or rejects; the getToken that started it resumes, returns or
\* rethrows, and its finally clears pendingRefresh (34-37); the invocations
\* that returned the promise settle with it
RefreshSettle(k, ok, exp) ==
  /\ k \in DOMAIN refreshes
  /\ refreshes[k].state = "pending"
  /\ exp \in ExpClaims(clock)
  /\ LET tok == [id |-> k, exp |-> exp]
     IN /\ token' = IF ok THEN tok ELSE token
        /\ expiresAt' = IF ok THEN extractExpiry(tok, clock) ELSE expiresAt
        /\ refreshes' = [refreshes EXCEPT ![k] = IF ok THEN [state |-> "resolved", token |-> tok]
                                                  ELSE [state |-> "rejected", token |-> NoToken]]
        /\ tokenCalls' = [c \in DOMAIN tokenCalls |->
                            IF tokenCalls[c].pc = "waiting" /\ tokenCalls[c].refresh = k
                            THEN IF ok THEN [tokenCalls[c] EXCEPT !.pc = "returned", !.result = tok]
                                 ELSE [tokenCalls[c] EXCEPT !.pc = "threw", !.error = RefreshError]
                            ELSE tokenCalls[c]]
  /\ pendingRefresh' = 0
  /\ UNCHANGED clock
  /\ UNCHANGED outsideTokenCache

\* time passes
TokenTick ==
  /\ clock < TokenStart + MaxTicks * TokenTickSeconds
  /\ clock' = clock + TokenTickSeconds
  /\ UNCHANGED <<token, expiresAt, pendingRefresh, refreshes, tokenCalls>>
  /\ UNCHANGED outsideTokenCache

TokenNext ==
  \/ \E c \in TokenCallers : TokenGet(c)
  \/ \E k \in 1..MaxRefreshes, ok \in BOOLEAN :
       \E exp \in ExpClaims(clock) : RefreshSettle(k, ok, exp)
  \/ TokenTick

SpecTokenCache == TokenInit /\ [][TokenNext]_vars

(***************************************************************************)
(* sanitizeSchema on its own (mcp-proxy-server.ts 681-738): one call on     *)
(* every schema node within the bounds, which returns or throws            *)
(***************************************************************************)
\* the keywords sanitizeSchema flattens (687, 706)
CompositionKeys == {"allOf", "oneOf", "anyOf"}

\* a property schema that carries a composition keyword of its own
NestedAnyOf == Obj([anyOf |-> Arr(<<Obj([properties |-> Obj([c |-> StringType])])>>)])

\* what a composition list may hold: object sub-schemas with and without
\* properties and required, and null
SubSchemas ==
  {Obj([properties |-> Obj([a |-> StringType]), required |-> Arr(<<Str("a")>>)]),
   Obj([properties |-> Obj([b |-> NestedAnyOf]), required |-> Arr(<<Str("b"), Str("q")>>)]),
   StringType,
   Null}

\* the node's own type, properties and required, each present or absent
OwnParts ==
  {Spread(Spread(t, p), r) :
     t \in {EmptyObj, [type |-> Str("object")], [type |-> Str("string")]},
     p \in {EmptyObj, [properties |-> Obj([q |-> StringType])],
            [properties |-> Obj([a |-> NestedAnyOf])]},
     r \in {EmptyObj, [required |-> Arr(<<Str("q")>>)]}}

SanitizeSchemas ==
  {Obj(own) : own \in OwnParts}
  \cup {Obj(SetKey(own, keyword, Arr(subs))) :
          own \in OwnParts, keyword \in CompositionKeys,
          subs \in SeqsUpTo(SubSchemas, MaxSubSchemas)}
  \cup {Obj(SetKey(SetKey(own, "allOf", Arr(subs)), keyword, Arr(variants))) :
          own \in OwnParts, keyword \in {"oneOf", "anyOf"},
          subs \in SeqsUpTo(SubSchemas, 1), variants \in SeqsUpTo(SubSchemas, 1)}
  \cup {Obj(SetKey(own, keyword, StringType)) : own \in OwnParts, keyword \in CompositionKeys}

SanitizeInit ==
  /\ schemaArg \in SanitizeSchemas
  /\ sanitizeResult = NotSanitized
  /\ NoTokenCache
  /\ NoMain
  /\ NoDiscoverAll
  /\ NoForwarder
  /\ forwarder = "null"
  /\ resolvedServers = <<>>
  /\ toolRegistry = <<>>
  /\ cachedTools = NullCache
  /\ discoveryDone = "null"
  /\ discoveryComplete = FALSE
  /\ discoveryError = "null"
  /\ discoveryPc = "none"
  /\ callbackOutcome = "none"
  /\ callbackInvocations = 0
  /\ notification = "none"
  /\ toolsCacheFile = FileAbsent
  /\ now = StartTime
  /\ calls = [c \in Callers |-> IdleCall]
  /\ lastList = NoList
  /\ delivered = IdleCall
  /\ registrySource = "none"

outsideSanitize == <<proxyVars, callbackInvocations, notification, discoverAllVars,
                     forwarderVars, mainVars, tokenCacheVars>>

\* the call runs to its return statement (737)
SanitizeReturns ==
  /\ sanitizeResult.state = "none"
  /\ ~SanitizeThrows(schemaArg)
  /\ sanitizeResult' = [state |-> "returned", value |-> sanitizeSchema(schemaArg)]
  /\ UNCHANGED schemaArg
  /\ UNCHANGED outsideSanitize

\* the call throws the TypeError of reading a property of null (690, 711)
SanitizeRaises ==
  /\ sanitizeResult.state = "none"
  /\ SanitizeThrows(schemaArg)
  /\ sanitizeResult' = [state |-> "threw", value |-> Str(SanitizeFailure)]
  /\ UNCHANGED schemaArg
  /\ UNCHANGED outsideSanitize

SanitizeNext == SanitizeReturns \/ SanitizeRaises

SpecSanitize == SanitizeInit /\ [][SanitizeNext]_vars

(***************************************************************************)
(* The proxy under the scheduling of the event loop: time passes, a timer   *)
(* that is due fires, the reactions of a settled promise run, and the       *)
(* forwarded backend call returns. Nothing makes the discovery callback     *)
(* settle. A call arrives while the bounded clock can still reach its       *)
(* deadline; list requests, which no call step reads, are left out.         *)
(***************************************************************************)
ResponsiveCallTool(c, name, args) ==
  /\ now + CALL_TIMEOUT_MS <= StartTime + MaxTicks * TickMs
  /\ CallTool(c, name, args)

ResponsiveNext ==
  \/ \E result \in LiveChoices, saveOk \in BOOLEAN : CallbackResolve(result, saveOk)
  \/ \E notified \in BOOLEAN : NotifyReturn(notified)
  \/ \E message \in FailureMessages : CallbackReject(message)
  \/ \E c \in Callers, name \in CallNames : ResponsiveCallTool(c, name, Undefined)
  \/ \E c \in Callers : WaitDone(c)
  \/ \E c \in Callers : WaitTimeout(c)
  \/ \E c \in Callers, ok \in BOOLEAN : ForwarderReturn(c, ok)
  \/ Tick

EventLoopFairness ==
  /\ WF_vars(Tick)
  /\ \A c \in Callers :
       /\ WF_vars(WaitDone(c))
       /\ WF_vars(WaitTimeout(c))
       /\ WF_vars(\E ok \in BOOLEAN : ForwarderReturn(c, ok))

SpecResponsive == Init /\ [][ResponsiveNext]_vars /\ EventLoopFairness

(***************************************************************************)
(* Properties                                                              *)
(***************************************************************************)
InFlight == {calls[c] : c \in DOMAIN calls} \cup {delivered}
Forwarded(call) == call.sent # Undefined
DiscoveryFailedNoForwarder ==
  discoveryDone = "resolved" /\ forwarder = "null" /\ discoveryError # "null"

\* C1 as stated: a call that blocked on a Running discovery either proceeds to
\* forwarding after discovery completed, or returns the timeout result once
\* the 30 second ceiling has elapsed; nothing else.
C1_Original ==
  \A call \in InFlight :
    call.waited /\ call.pc # "waiting" =>
      \/ Forwarded(call) /\ discoveryComplete /\ forwarder # "null"
      \/ call.response = TimeoutText /\ now >= call.deadline

\* C1 amended: a call that blocked is released by the return of the discovery
\* task or by the 30 second timer. Released by the task with a forwarder
\* installed it is forwarded if its entry's backend is among the live backends
\* and answers "server not found" otherwise; released by the task of a failed
\* discovery it answers the timeout result at once; released by the timer it
\* answers the timeout result, and then 30 seconds have elapsed.
C1_BlockedCallOutcomes ==
  \A call \in InFlight :
    call.waited /\ call.pc # "waiting" =>
      \/ /\ Forwarded(call)
         /\ discoveryDone = "resolved" /\ forwarder # "null"
         /\ call.sent.server.mcpServerName = call.entry.serverName
      \/ /\ call.response = ServerNotFoundText(call.entry.serverName)
         /\ discoveryDone = "resolved" /\ forwarder # "null"
         /\ \A i \in 1..Len(resolvedServers) :
              resolvedServers[i].mcpServerName # call.entry.serverName
      \/ /\ call.response = TimeoutText
         /\ now >= call.deadline \/ DiscoveryFailedNoForwarder

\* a blocked call answered by the timer while discovery is still running
C1_Witness ==
  /\ delivered.waited /\ delivered.response = TimeoutText
  /\ now >= delivered.deadline /\ discoveryDone = "pending"

\* C2 as stated: a list request answered after discovery completed returns
\* exactly the tool definitions built from the live result, whatever the live
\* result is (fewer tools than the cache, or none).
C2_Original ==
  lastList.answered /\ lastList.complete /\ lastList.source = "live" =>
    lastList.tools = ToolDefs(rebuildRegistryFromLive(resolvedServers).reg)

\* C3: in every reachable state the tools/list handler can take its step: it
\* never waits for discovery.
C3_ListNeverBlocks == ENABLED ListTools

\* a list request answered while the discovery callback was still pending
C3_Witness ==
  lastList.answered /\ ~lastList.complete /\ discoveryPc = "callback"

\* C4 as stated: Complete (live forwarder and full live registry installed)
\* and Failed (a failure reason recorded) never hold together.
C4_Original ==
  ~ /\ discoveryComplete /\ forwarder = "live" /\ registrySource = "live"
    /\ ~rebuildRegistryFromLive(resolvedServers).threw
    /\ discoveryError # "null"

\* C5 as stated: the registry a handler can observe is empty, or the full
\* build of the loaded cache, or the full build of the live result.
C5_Original ==
  \/ toolRegistry = <<>>
  \/ /\ cachedTools.present
     /\ toolRegistry = rebuildRegistryFromCache(cachedTools.tools).reg
  \/ /\ ~rebuildRegistryFromLive(resolvedServers).threw
     /\ toolRegistry = rebuildRegistryFromLive(resolvedServers).reg

PairsUnique(tools) ==
  \A i, j \in 1..Len(tools) :
    i # j => tools[i].name # tools[j].name \/ tools[i].serverName # tools[j].serverName

MultiBackend(tools, name) ==
  \E i, j \in 1..Len(tools) :
    tools[i].name = name /\ tools[j].name = name /\ tools[i].serverName # tools[j].serverName

UniqueAcrossBackends(tools, name) ==
  Cardinality({i \in 1..Len(tools) : tools[i].name = name}) = 1

\* C6 as stated: when the (originalName, originBackend) pairs of the source
\* tools are unique, the registry has one entry per source tool, under
\* pairwise distinct external names.
C6_Original ==
  registrySource # "none" /\ PairsUnique(SourceTools) =>
    /\ Len(toolRegistry) = Len(SourceTools)
    /\ \A i \in 1..Len(SourceTools) :
         \E k \in 1..Len(toolRegistry) :
           /\ toolRegistry[k].originalName = SourceTools[i].name
           /\ toolRegistry[k].serverName = SourceTools[i].serverName

\* C7: every source tool whose name is reported by more than one backend is
\* entered under originalName_originBackend, the first one seen as well as the
\* later ones, in the live build and in the cache build; and every registry
\* entry of such a name carries that external name.
C7_CollidingNamesSuffixed ==
  registrySource # "none" =>
    /\ \A i \in 1..Len(SourceTools) :
         MultiBackend(SourceTools, SourceTools[i].name) =>
           MapHas(toolRegistry, SourceTools[i].name \o "_" \o SourceTools[i].serverName)
    /\ \A k \in 1..Len(toolRegistry) :
         MultiBackend(SourceTools, toolRegistry[k].originalName) =>
           /\ toolRegistry[k].uniqueName =
                toolRegistry[k].originalName \o "_" \o toolRegistry[k].serverName
           /\ toolRegistry[k].toolDef.name = toolRegistry[k].uniqueName

\* the first tool seen collides with a later one and is suffixed
C7_Witness ==
  /\ registrySource = "live" /\ Len(toolRegistry) >= 2
  /\ toolRegistry[1].originalName = "t" /\ toolRegistry[1].uniqueName = "t_A"
  /\ MultiBackend(SourceTools, "t")

\* C8 as stated: a tool whose name is unique across backends is entered under
\* its original name, and the registry entry of that name maps back to the
\* tool's backend (for source tools with unique (name, backend) pairs).
C8_Original ==
  registrySource # "none" /\ PairsUnique(SourceTools) =>
    \A i \in 1..Len(SourceTools) :
      UniqueAcrossBackends(SourceTools, SourceTools[i].name) =>
        /\ MapHas(toolRegistry, SourceTools[i].name)
        /\ MapGet(toolRegistry, SourceTools[i].name).originalName = SourceTools[i].name
        /\ MapGet(toolRegistry, SourceTools[i].name).serverName = SourceTools[i].serverName

\* C9: a call that reaches the forwarder goes to a resolved server named as the
\* entry's origin backend, with the entry's original tool name and the caller's
\* arguments ({} when none were sent), and the handler answers what the
\* forwarder answered; with a forwarder in place and the backend resolved, a
\* call for a registered name does reach the forwarder.
C9_ForwardedToOrigin ==
  \A call \in InFlight :
    /\ Forwarded(call) =>
         /\ forwarder # "null"
         /\ call.entry # Undefined
         /\ call.sent.toolName = call.entry.originalName
         /\ call.sent.server.mcpServerName = call.entry.serverName
         /\ \E i \in 1..Len(resolvedServers) : resolvedServers[i] = call.sent.server
         /\ call.sent.args = (IF call.args = Undefined THEN Obj(EmptyObj) ELSE call.args)
         /\ call.pc = "done" =>
              \/ call.response = BackendContent(call.sent.toolName, call.sent.args, call.sent.server)
              \/ call.response = ForwarderError(call.sent.toolName, call.sent.server)
    /\ call.pc = "done" /\ call.entry # Undefined /\ ~Forwarded(call) /\ ~call.waited =>
         \/ forwarder = "null" /\ call.response = TimeoutText
         \/ /\ call.response = ServerNotFoundText(call.entry.serverName)
            /\ \A i \in 1..Len(resolvedServers) :
                 resolvedServers[i].mcpServerName # call.entry.serverName

\* a call under a suffixed external name was forwarded under the original name
C9_Witness ==
  /\ Forwarded(delivered) /\ delivered.name = "t_B" /\ delivered.sent.toolName = "t"
  /\ delivered.args # Undefined
  /\ delivered.response = BackendContent("t", delivered.args, delivered.sent.server)

CacheRegistry ==
  IF cachedTools.present /\ Len(cachedTools.tools) > 0
  THEN rebuildRegistryFromCache(cachedTools.tools).reg
  ELSE <<>>

\* C10: after the discovery callback failed, discovery is marked complete with
\* the failure reason recorded, the registry is still the one built from the
\* disk cache (or empty), and a list request answered from then on returns the
\* cache-built definitions when there are any.
C10_FailureKeepsCacheRegistry ==
  callbackOutcome = "rejected" =>
    /\ discoveryComplete /\ discoveryError \in FailureMessages
    /\ forwarder = "null" /\ registrySource # "live"
    /\ toolRegistry = CacheRegistry
    /\ lastList.answered /\ lastList.complete /\ Len(CacheRegistry) > 0 =>
         lastList.tools = ToolDefs(CacheRegistry)

\* a list request answered from the cache-built registry after the failure
C10_Witness ==
  /\ callbackOutcome = "rejected" /\ Len(toolRegistry) > 0
  /\ lastList.answered /\ lastList.complete
  /\ lastList.tools = ToolDefs(toolRegistry)

\* the tools/call invocations suspended in waitForDiscovery
Waiting == {c \in DOMAIN calls : calls[c].pc = "waiting"}

\* C11: discoveryCallback is invoked at most once per proxy, whatever requests
\* arrive and however many callers wait; every waiting caller waits on the one
\* promise of that run: none waits without a run, each is released by that
\* run's return (or by its own timer while the run is pending), and once the
\* run returned every waiting caller can proceed.
C11_DiscoveryRunsOnce ==
  /\ [](/\ callbackInvocations <= 1
        /\ callbackInvocations = (IF discoveryDone = "null" THEN 0 ELSE 1)
        /\ \A c \in Waiting :
             /\ discoveryDone # "null"
             /\ discoveryDone = "resolved" => ENABLED WaitDone(c))
  /\ [][/\ callbackInvocations' = callbackInvocations
        /\ \A c \in Waiting :
             calls'[c].pc # "waiting" =>
               \/ discoveryDone = "resolved"
               \/ discoveryDone = "pending" /\ TimerDue(calls[c], now)]_vars

\* two callers that waited on the same run were both released by its return
\* and are both being forwarded
C11_Witness ==
  /\ callbackInvocations = 1 /\ discoveryDone = "resolved"
  /\ \E c, d \in DOMAIN calls :
       /\ c # d
       /\ calls[c].waited /\ calls[c].pc = "forwarding"
       /\ calls[d].waited /\ calls[d].pc = "forwarding"

\* what runDiscovery reads and writes
discoveryVars == <<forwarder, resolvedServers, toolRegistry, discoveryComplete,
                   discoveryError, discoveryDone, discoveryPc, callbackOutcome,
                   toolsCacheFile>>

\* C12: a waiting call released by its timer while the discovery task is
\* pending answers the timeout text as content, and that step changes nothing
\* of the discovery task; the callback can still resolve afterwards; and once
\* a forwarder is installed, a call for a name of the live registry is
\* forwarded at once.
C12_TimeoutLeavesDiscovery ==
  /\ [][\A c \in Waiting :
          calls'[c].pc # "waiting" /\ discoveryDone = "pending" =>
            /\ delivered' = [calls[c] EXCEPT !.pc = "done", !.response = TimeoutText]
            /\ now >= calls[c].deadline
            /\ UNCHANGED discoveryVars]_vars
  /\ [](discoveryPc = "callback" =>
          ENABLED (\E result \in LiveChoices : CallbackResolve(result, TRUE)))
  /\ [](forwarder # "null" /\ registrySource = "live" =>
          \A name \in CallNames, args \in CallArgs :
            MapHas(toolRegistry, name) /\ name # SignInName =>
              CallToolStart(name, args).pc = "forwarding")

\* a call timed out, discovery completed afterwards, and a later call for the
\* same tool is being forwarded
C12_Witness ==
  /\ delivered.waited /\ delivered.response = TimeoutText /\ now >= delivered.deadline
  /\ discoveryComplete /\ callbackOutcome = "resolved"
  /\ \E c \in DOMAIN calls :
       /\ calls[c].pc = "forwarding" /\ ~calls[c].waited
       /\ calls[c].name = delivered.name

\* C13 as stated: a list request answered while the registry was empty returns
\* exactly one placeholder: agent365_connection_status carrying the recorded
\* reason if discovery had failed, agent365_sign_in_status otherwise.
C13_Original ==
  lastList.answered /\ lastList.size = 0 =>
    lastList.tools = IF lastList.error # "null"
                     THEN <<ConnectionStatusTool(lastList.error)>>
                     ELSE <<SignInStatusTool>>

\* C14: a list request answered before discovery completed, on a proxy that
\* loaded a fresh non-empty cache, returns no placeholder but one definition
\* per external name of the cached records: names pairwise distinct, every
\* cached record listed under its name (suffixed with its backend when several
\* records share the name), every definition carrying the sanitized schema of
\* a cached record, free of composition keys at its root.
C14_CacheServedBeforeCompletion ==
  lastList.answered /\ ~lastList.complete
    /\ cachedTools.present /\ Len(cachedTools.tools) > 0 =>
    LET tools == cachedTools.tools
        listed == lastList.tools
    IN /\ Len(listed) > 0
       /\ \A i \in 1..Len(listed) : listed[i].name \notin {SignInName, ConnectionName}
       /\ \A i, j \in 1..Len(listed) : i # j => listed[i].name # listed[j].name
       /\ \A r \in 1..Len(tools) :
            \E i \in 1..Len(listed) :
              listed[i].name = IF NameCount(tools, tools[r].name) > 1
                               THEN tools[r].name \o "_" \o tools[r].serverName
                               ELSE tools[r].name
       /\ \A i \in 1..Len(listed) :
            /\ \E r \in 1..Len(tools) :
                 /\ listed[i].name \in {tools[r].name,
                                        tools[r].name \o "_" \o tools[r].serverName}
                 /\ listed[i].inputSchema = sanitizeSchema(tools[r].inputSchema)
                 /\ listed[i].description = tools[r].description
            /\ DOMAIN listed[i].inputSchema.v \cap CompositionKeys = {}
            /\ "type" \in DOMAIN listed[i].inputSchema.v

\* the two cached records of one name, listed under suffixed names while the
\* discovery callback is pending
C14_Witness ==
  /\ lastList.answered /\ ~lastList.complete /\ lastList.source = "cache"
  /\ discoveryPc = "callback"
  /\ Len(lastList.tools) = Len(cachedTools.tools)
  /\ \E i \in 1..Len(lastList.tools) : lastList.tools[i].name = "t_B"

\* C15: in every state, a call for a name the registry does not hold (other
\* than the intercepted agent365_sign_in_status) returns in the step that
\* receives it, with the content "Error: Tool '<name>' not found."; it never
\* waits for discovery and never reaches the forwarder.
C15_UnknownNameAnswered ==
  /\ \A name \in CallNames \ {SignInName}, args \in CallArgs :
       ~MapHas(toolRegistry, name) =>
         CallToolStart(name, args) =
           [IdleCall EXCEPT !.name = name, !.args = args, !.pc = "done",
                            !.response = NotFoundText(name)]
  /\ \A call \in InFlight :
       call.pc # "idle" /\ call.name # SignInName /\ call.entry = Undefined =>
         /\ call.pc = "done" /\ ~call.waited /\ ~Forwarded(call)
         /\ call.response = NotFoundText(call.name)

\* an unknown name answered while the discovery callback was still pending
C15_Witness ==
  /\ delivered.name = "nope" /\ delivered.response = NotFoundText("nope")
  /\ discoveryPc = "callback" /\ forwarder = "null"

\* the reasons discoveryError can hold
Reasons == {"null", SaveFailure, SanitizeFailure} \cup FailureMessages

\* C16 as stated: a call naming agent365_sign_in_status or
\* agent365_connection_status is answered before the registry lookup, with a
\* status message of the discovery state: connected, failed with the reason,
\* or still connecting.
C16_Original ==
  delivered.name \in {SignInName, ConnectionName} =>
    /\ delivered.entry = Undefined /\ ~delivered.waited
    /\ delivered.response \in
         {PlaceholderStatus(complete, err) : complete \in BOOLEAN, err \in Reasons}

\* no resolved server carries the name
BackendAbsent(servers, serverName) ==
  \A i \in 1..Len(servers) : servers[i].mcpServerName # serverName

\* C17: a waiting call released by the discovery task with a forwarder
\* installed, whose entry names a backend that is not among the resolved
\* servers, returns the content "Error: Server '<backend>' not found." in that
\* step; and no call is ever forwarded to a server other than a resolved one
\* of its entry's backend name.
C17_BackendAbsentAnswered ==
  /\ [][\A c \in Waiting :
          /\ calls'[c].pc # "waiting" /\ discoveryDone = "resolved" /\ forwarder # "null"
          /\ BackendAbsent(resolvedServers, calls[c].entry.serverName)
          => /\ calls'[c] = IdleCall
             /\ delivered' = [calls[c] EXCEPT
                                !.pc = "done",
                                !.response = ServerNotFoundText(calls[c].entry.serverName)]]_vars
  /\ [](\A call \in InFlight :
          Forwarded(call) =>
            /\ ~BackendAbsent(resolvedServers, call.entry.serverName)
            /\ call.sent.server.mcpServerName = call.entry.serverName)

\* an entry resolved from the cache before the wait, whose backend the live
\* discovery did not return
C17_Witness ==
  /\ delivered.waited /\ delivered.entry # Undefined
  /\ delivered.response = ServerNotFoundText("B")
  /\ forwarder = "live" /\ BackendAbsent(resolvedServers, "B")

RECURSIVE Succeeded(_, _, _)
\* the configurations among the first k whose discoverTools ended well, in
\* declaration order
Succeeded(configs, fates, k) ==
  IF k = 0 THEN <<>>
  ELSE IF fates[k] = "ok"
       THEN Append(Succeeded(configs, fates, k - 1), configs[k])
       ELSE Succeeded(configs, fates, k - 1)

\* C18: once the configurations are known, discoverAll never throws: whatever
\* backends fail (token, connect, list or close), the result built so far
\* holds exactly the backends visited so far that succeeded, in declaration
\* order, each with its url and its tools in reported order, and the call
\* returns with every backend visited.
C18_DiscoverAllTolerant ==
  /\ discoverPc.step = "threw" => serverConfigs = <<>> /\ backendFate = <<>>
  /\ Len(backendFate) <= Len(serverConfigs)
  /\ LET ok == Succeeded(serverConfigs, backendFate, Len(backendFate))
     IN /\ Len(resolved) = Len(ok)
        /\ \A k \in 1..Len(ok) :
             /\ resolved[k].config = ok[k]
             /\ resolved[k].url = buildServerUrl(ok[k])
             /\ Len(resolved[k].tools) = Len(ReportedTools(ok[k].mcpServerName))
             /\ \A j \in 1..Len(resolved[k].tools) :
                  /\ resolved[k].tools[j].name = ReportedTools(ok[k].mcpServerName)[j].name
                  /\ resolved[k].tools[j].serverName = ok[k].mcpServerName
  /\ discoverPc.step = "returned" => Len(backendFate) = Len(serverConfigs)

\* A succeeded, B failed at listTools, C succeeded: discoverAll returned A
\* and C
C18_Witness ==
  /\ discoverPc.step = "returned"
  /\ serverConfigs = <<[mcpServerName |-> "A"], [mcpServerName |-> "B"], [mcpServerName |-> "C"]>>
  /\ backendFate = <<"ok", "listFails", "ok">>
  /\ Len(resolved) = Len(serverConfigs) - 1

\* C19 as stated: at most one discovery connection is open at any time, and
\* none is open when discoverAll has returned, also when a backend failed
\* after connecting.
C19_Original ==
  /\ Cardinality(discoveryClients) <= 1
  /\ discoverPc.step = "returned" => discoveryClients = {}

ForwarderInFlight ==
  {forwarderCalls[c] : c \in DOMAIN forwarderCalls} \cup {forwarderReturned}

\* a value of the shape { content: [{ type, text }, ...] }
ContentShaped(result) ==
  /\ DOMAIN result = {"content"}
  /\ \A k \in 1..Len(result.content) :
       DOMAIN result.content[k] = {"type", "text"}

\* C20: no callTool invocation ever settles by raising; every one that
\* settled returned a content-shaped result; and when token acquisition, the
\* connect or the backend call threw (also on a Client another call closed),
\* the result is the one text block "Error calling tool ... on <backend>:
\* <message>", whatever calls came before.
C20_CallToolNeverRaises ==
  \A call \in ForwarderInFlight :
    /\ call.pc # "raised"
    /\ call.pc = "returned" =>
         /\ ContentShaped(call.result)
         /\ call.fate \in {"tokenFails", "connectFails", "callThrows", "notConnected"} =>
              /\ Len(call.result.content) = 1
              /\ call.result.content[1].type = "text"
              /\ call.result.content[1].text =
                   "Error calling tool \"" \o call.toolName \o "\" on "
                     \o call.server.mcpServerName \o ": " \o FateMessage(call.fate)

\* token acquisition failed in a call to a backend whose Client, cached by a
\* prior call, this call had closed
C20_Witness ==
  /\ forwarderReturned.pc = "returned" /\ forwarderReturned.fate = "tokenFails"
  /\ ClientGet(clients, forwarderReturned.server.mcpServerName) # 0
  /\ connections[ClientGet(clients, forwarderReturned.server.mcpServerName)].state = "closed"

\* the connections to the backend key that are open and that no close was
\* attempted on
OpenConnections(key) ==
  {i \in 1..Len(connections) : connections[i].key = key /\ connections[i].state = "open"}

\* C21: the forwarder holds at most one open connection per backend at any
\* time, under every interleaving of concurrent calls to the same backend.
C21_Original ==
  \A i \in 1..Len(toolServers) :
    Cardinality(OpenConnections(toolServers[i].mcpServerName)) <= 1

\* the connections an in-flight callTool awaits a backend call on
ConnectionsInUse ==
  {forwarderCalls[c].client : c \in {d \in DOMAIN forwarderCalls : forwarderCalls[d].pc = "calling"}}

\* C22: once closeAll has returned (the cleanup handler then exits), the
\* connection cache is empty and every connection the forwarder opened, other
\* than those an in-flight call is using, is closed.
C22_Original ==
  closeAllPc.step = "done" =>
    /\ clients = <<>>
    /\ \A i \in 1..Len(connections) :
         connections[i].state = "open" => i \in ConnectionsInUse

\* what the discovery task installs: the registry, DiscoveryState, the
\* forwarder, the resolved backends and the disk cache
installedVars == <<toolRegistry, discoveryComplete, discoveryError, forwarder,
                   resolvedServers, toolsCacheFile, registrySource>>

\* C23: after construction every step of a list or call request (the step
\* that answers a list, starts a call, releases a waiting call or delivers a
\* response) leaves the registry, discoveryComplete, discoveryError, the
\* forwarder, the resolved backends and the cache file unchanged; whatever
\* changes one of them is a step of the discovery task.
C23_OnlyDiscoveryWrites ==
  /\ [][lastList' # lastList \/ calls' # calls \/ delivered' # delivered =>
          UNCHANGED installedVars]_vars
  /\ [][installedVars' # installedVars => discoveryPc' # discoveryPc]_vars

\* a list was answered and a call delivered from the cache-built registry
\* while the discovery task was at its callback
C23_Witness ==
  /\ lastList.answered /\ delivered.pc = "done"
  /\ discoveryPc = "callback" /\ registrySource = "cache" /\ toolRegistry # <<>>
  /\ ~discoveryComplete /\ forwarder = "null"

\* C24 as stated: once the discovery callback has resolved, the full live
\* registry is installed, discoveryComplete holds and the cache file is the
\* fresh tool list (one record per registry entry, with original name and
\* origin backend) under one timestamp; and the cache file changes in no step
\* other than that one.
C24_Original ==
  /\ [](callbackOutcome = "resolved" =>
          /\ discoveryComplete
          /\ ~rebuildRegistryFromLive(resolvedServers).threw
          /\ toolRegistry = rebuildRegistryFromLive(resolvedServers).reg
          /\ toolsCacheFile.state = "json"
          /\ toolsCacheFile.tools = FreshTools(toolRegistry)
          /\ toolsCacheFile.timestamp <= now)
  /\ [][toolsCacheFile' # toolsCacheFile =>
          callbackOutcome = "pending" /\ callbackOutcome' = "resolved"]_vars

\* C25: the step in which sendToolListChanged throws leaves discoveryComplete
\* true, records no failure reason, keeps the live registry, the forwarder and
\* the cache file, and resolves the discovery promise, which releases the
\* waiting calls; afterwards no failure reason is recorded either.
C25_NotifyFailureIgnored ==
  /\ [][notification' = "threw" /\ notification # "threw" =>
          /\ discoveryComplete /\ discoveryComplete'
          /\ discoveryError = "null" /\ discoveryError' = "null"
          /\ UNCHANGED <<toolRegistry, forwarder, resolvedServers, toolsCacheFile>>
          /\ discoveryDone' = "resolved"]_vars
  /\ [](notification = "threw" =>
          /\ discoveryComplete /\ discoveryError = "null" /\ forwarder = "live"
          /\ toolRegistry = rebuildRegistryFromLive(resolvedServers).reg
          /\ toolsCacheFile.tools = FreshTools(toolRegistry)
          /\ \A c \in Waiting : ENABLED WaitDone(c))

\* the notification threw, and a call that had waited for discovery was then
\* released and forwarded
C25_Witness ==
  /\ notification = "threw"
  /\ delivered.pc = "done" /\ delivered.waited
  /\ delivered.response # TimeoutText
  /\ discoveryComplete /\ discoveryError = "null"

\* the file is a cache written more than 24 hours before time t
Stale(file, t) == file.state = "json" /\ t - file.timestamp > MAX_CACHE_AGE_MS

\* C26: a cache file more than 24 hours old at load time loads as absent, like
\* a missing file, and every constructor leaves the same registry for it as
\* for a missing file; a file of age at most 24 hours loads as its tool list.
\* (Both are compared in the states before the first request and the first
\* tick.) As long as the file is the one found at construction, a proxy constructed
\* over a stale file holds no cached tools and no cache-built registry, answers
\* a list without live tools by the placeholder of the no-cache case, and
\* answers a call for a name of the stale file as not found.
C26_StaleCacheLikeMissing ==
  /\ ~lastList.answered /\ delivered.pc = "idle" /\ now = StartTime => \A file \in InitialFiles :
       /\ Stale(file, StartTime) =>
            /\ loadToolsCache(file, StartTime) = loadToolsCache(FileAbsent, StartTime)
            /\ \A args \in ConstructorArgs :
                 ConstructedRegistry(args, loadToolsCache(file, StartTime))
                   = ConstructedRegistry(args, loadToolsCache(FileAbsent, StartTime))
       /\ file.state = "json" /\ ~Stale(file, StartTime) =>
            loadToolsCache(file, StartTime) = SomeCache(file.tools)
  /\ callbackOutcome # "resolved" /\ Stale(toolsCacheFile, StartTime) =>
       /\ cachedTools = NullCache
       /\ registrySource # "cache"
       /\ registrySource = "none" => toolRegistry = <<>>
       /\ lastList.answered /\ lastList.source = "none" =>
            lastList.tools = ListToolsResponse(<<>>, lastList.error)
       /\ delivered.pc = "done" /\ registrySource = "none"
            /\ delivered.name \notin {SignInName, ConnectionName} =>
            delivered.response = NotFoundText(delivered.name)
  /\ callbackOutcome # "resolved" /\ toolsCacheFile.state = "json"
       /\ ~Stale(toolsCacheFile, StartTime) =>
       cachedTools = SomeCache(toolsCacheFile.tools)

\* over a file older than 24 hours, a list was answered by the
\* sign-in placeholder and a call for the cached name "t" as not found, before
\* discovery returned
C26_Witness ==
  /\ Stale(toolsCacheFile, StartTime) /\ toolsCacheFile.tools # <<>>
  /\ discoveryPc = "callback"
  /\ lastList.answered /\ lastList.tools = <<SignInStatusTool>>
  /\ delivered.pc = "done" /\ delivered.name = "t"
  /\ delivered.response = NotFoundText("t")

\* C27 as stated: while discovery has not completed (discoverAll is still
\* running), the inbound transport is started and a list request can be
\* answered.
C27_Original ==
  mainPc = "discovering" /\ discoverPc.step \notin {"returned", "threw"} =>
    ENABLED MainListTools

\* C28 as stated: the process exits with a non-zero code only because the
\* configuration could not be read or the inbound transport could not start,
\* never because discovery failed.
C28_Original ==
  exit.code = "1" => exit.cause \in {"config", "transport"}

\* C29 as stated: server resolution fails only in gateway mode, and only with
\* the error of a non-success HTTP response.
C29_Original ==
  discoverPc.step = "threw" =>
    resolutionMode = "gateway" /\ discoverPc.error = ResolutionError("notOk")

\* C29, amended: server resolution fails only when a gateway query is
\* required, and then with the error of the token acquisition, of the HTTP
\* request, of a non-success response (status and status text) or of the body
\* parse, having resolved nothing; in manifest mode it never fails and the
\* empty list is accepted; and getServerConfigs is never awaited a second time.
C29_ResolutionFailures ==
  /\ [](discoverPc.step = "threw" =>
          /\ resolutionMode = "gateway"
          /\ discoverPc.error \in
               {ResolutionError(o) : o \in ResolutionOutcomes("gateway") \ {"ok"}}
          /\ discoverPc.error = ResolutionError("notOk") =>
               discoverPc.error = "Gateway discovery failed: 401 Unauthorized"
          /\ serverConfigs = <<>> /\ resolved = <<>> /\ backendFate = <<>>)
  /\ [](resolutionMode = "manifest" /\ discoverPc.step = "configs" =>
          /\ ENABLED GetServerConfigs("ok", <<>>)
          /\ \A o \in ResolutionOutcomes("gateway") \ {"ok"} :
               ~ENABLED GetServerConfigs(o, <<>>))
  /\ [][/\ discoverPc.step = "threw" => discoverPc' = discoverPc
        /\ discoverPc'.step = "configs" => discoverPc.step = "configs"]_vars

\* the gateway answered with a non-success status and discoverAll threw
C29_Witness ==
  /\ resolutionMode = "gateway" /\ discoverPc.step = "threw"
  /\ discoverPc.error = ResolutionError("notOk")

\* the refreshFn invocations that have not settled
RefreshesInFlight == {k \in DOMAIN refreshes : refreshes[k].state = "pending"}

\* C30: at most one refreshFn invocation is in flight at a time; every
\* getToken invocation that waits, waits on the one refresh in flight; an
\* invocation that arrives while a refresh is in flight starts no refresh and
\* waits on that one; and every invocation that waited on a refresh settled
\* with that refresh's outcome, its token or its error.
C30_SingleFlight ==
  /\ [](/\ Cardinality(RefreshesInFlight) <= 1
        /\ pendingRefresh # 0 <=> RefreshesInFlight # {}
        /\ \A c \in DOMAIN tokenCalls :
             /\ tokenCalls[c].pc = "waiting" =>
                  RefreshesInFlight = {tokenCalls[c].refresh}
             /\ tokenCalls[c].pc = "returned" /\ tokenCalls[c].refresh # 0 =>
                  /\ refreshes[tokenCalls[c].refresh].state = "resolved"
                  /\ tokenCalls[c].result = refreshes[tokenCalls[c].refresh].token
             /\ tokenCalls[c].pc = "threw" =>
                  /\ refreshes[tokenCalls[c].refresh].state = "rejected"
                  /\ tokenCalls[c].error = RefreshError)
  /\ [][\A c \in DOMAIN tokenCalls :
          tokenCalls'[c] # tokenCalls[c] /\ tokenCalls'[c].arrivedDuring # 0
            /\ tokenCalls'[c].pc = "waiting" /\ RefreshesInFlight # {} =>
            /\ refreshes' = refreshes
            /\ ~tokenCalls'[c].starter
            /\ tokenCalls'[c].refresh = tokenCalls'[c].arrivedDuring
            /\ RefreshesInFlight = {tokenCalls'[c].arrivedDuring}]_vars

\* two invocations waited on the same refresh, the one that started it and one
\* that arrived while it was in flight, and both got its error
C30_Witness ==
  \E c, d \in DOMAIN tokenCalls :
    /\ tokenCalls[c].pc = "threw" /\ tokenCalls[c].starter
    /\ tokenCalls[d].pc = "threw" /\ ~tokenCalls[d].starter
    /\ tokenCalls[d].refresh = tokenCalls[c].refresh
    /\ tokenCalls[d].arrivedDuring = tokenCalls[c].refresh

\* the property names and the required names a schema node lists
PropertyNames(node) ==
  IF Get(node, "properties").k = "obj" THEN DOMAIN Get(node, "properties").v ELSE {}
RequiredNames(node) ==
  IF IsArray(Get(node, "required"))
  THEN {Get(node, "required").v[i] : i \in 1..Len(Get(node, "required").v)}
  ELSE {}

\* the node lists its sub-schemas under keyword and under no other keyword
ComposedOnlyBy(node, keyword) ==
  /\ CompositionKeys \cap DOMAIN node.v = {keyword}
  /\ IsArray(node.v[keyword])

\* what the claim says of the node returned for a node with allOf
AllOfMerged(node, out) ==
  LET subs == node.v["allOf"].v
  IN /\ PropertyNames(out) = PropertyNames(node)
                             \cup UNION {PropertyNames(subs[i]) : i \in 1..Len(subs)}
     /\ RequiredNames(out) = RequiredNames(node)
                             \cup UNION {RequiredNames(subs[i]) : i \in 1..Len(subs)}
     /\ IsArray(Get(out, "required")) =>
          Len(Get(out, "required").v) = Cardinality(RequiredNames(out))
     /\ "allOf" \notin DOMAIN out.v
     /\ Get(out, "type") = IF "type" \in DOMAIN node.v THEN node.v["type"] ELSE Str("object")

\* C31: a call of sanitizeSchema on a node with an allOf list returns a node
\* whose properties are the node's own and every sub-schema's, whose required
\* names are the node's own and every sub-schema's without duplicates, which
\* has no allOf key, and whose type is the node's own type, or "object" when
\* the node had none.
C31_Original ==
  sanitizeResult.state # "none" /\ ComposedOnlyBy(schemaArg, "allOf") =>
    /\ sanitizeResult.state = "returned"
    /\ AllOfMerged(schemaArg, sanitizeResult.value)

\* the same for the allOf lists that hold objects only
C31_ObjectSubSchemas ==
  /\ sanitizeResult.state # "none"
  /\ ComposedOnlyBy(schemaArg, "allOf")
  /\ \A i \in 1..Len(schemaArg.v["allOf"].v) : schemaArg.v["allOf"].v[i].k = "obj"
  => /\ sanitizeResult.state = "returned"
     /\ AllOfMerged(schemaArg, sanitizeResult.value)

\* what the claim says of the node returned for a node with a oneOf or anyOf list
FirstVariantKept(node, keyword, out) ==
  LET variants == node.v[keyword].v
      first == IF Len(variants) > 0 THEN variants[1] ELSE Undefined
  IN /\ PropertyNames(out) = PropertyNames(node) \cup PropertyNames(first)
     /\ RequiredNames(out) = RequiredNames(node) \cup RequiredNames(first)
     /\ \A i \in 2..Len(variants) :
          (PropertyNames(variants[i]) \ (PropertyNames(node) \cup PropertyNames(first)))
            \cap PropertyNames(out) = {}
     /\ keyword \notin DOMAIN out.v

\* C32: a call of sanitizeSchema on a node with a oneOf or an anyOf list
\* returns a node whose properties and required names are the node's own and
\* the first variant's, with no property of a later variant, and without the
\* keyword; for an empty list too the keyword is gone.
C32_Original ==
  \A keyword \in {"oneOf", "anyOf"} :
    sanitizeResult.state # "none" /\ ComposedOnlyBy(schemaArg, keyword) =>
      /\ sanitizeResult.state = "returned"
      /\ FirstVariantKept(schemaArg, keyword, sanitizeResult.value)

\* the same for the lists whose first variant is an object
C32_ObjectFirstVariant ==
  \A keyword \in {"oneOf", "anyOf"} :
    /\ sanitizeResult.state # "none"
    /\ ComposedOnlyBy(schemaArg, keyword)
    /\ Len(schemaArg.v[keyword].v) > 0 => schemaArg.v[keyword].v[1].k = "obj"
    => /\ sanitizeResult.state = "returned"
       /\ FirstVariantKept(schemaArg, keyword, sanitizeResult.value)

\* the object-valued properties of a node, the nodes one `properties` step away
PropertyNodes(node) ==
  IF Get(node, "properties").k = "obj"
  THEN {val \in {Get(node, "properties").v[key] : key \in PropertyNames(node)} :
          val.k = "obj"}
  ELSE {}

RECURSIVE ObjectSubSchemas(_)
\* every composition keyword of the node, of its property schemas and of the
\* property schemas of its sub-schemas holds a list of objects
ObjectSubSchemas(node) ==
  /\ \A keyword \in CompositionKeys \cap DOMAIN node.v :
       /\ IsArray(node.v[keyword])
       /\ \A i \in 1..Len(node.v[keyword].v) :
            /\ node.v[keyword].v[i].k = "obj"
            /\ \A sub \in PropertyNodes(node.v[keyword].v[i]) : ObjectSubSchemas(sub)
  /\ \A sub \in PropertyNodes(node) : ObjectSubSchemas(sub)

RECURSIVE NoComposition(_)
\* neither the node nor a node below it through `properties` has a composition key
NoComposition(node) ==
  /\ CompositionKeys \cap DOMAIN node.v = {}
  /\ \A sub \in PropertyNodes(node) : NoComposition(sub)

\* C40: when every composition keyword of the input holds a list of object
\* sub-schemas, sanitizeSchema returns, and no node of what it returns, from
\* the root through any chain of `properties` values, has an allOf, oneOf or
\* anyOf key; the properties merged in from sub-schemas are among those nodes.
C40_NoCompositionLeft ==
  sanitizeResult.state # "none" /\ ObjectSubSchemas(schemaArg) =>
    /\ sanitizeResult.state = "returned"
    /\ NoComposition(sanitizeResult.value)

\* a property schema with an anyOf of its own came in from an allOf sub-schema
\* and is in the returned node, flattened
C40_Witness ==
  /\ sanitizeResult.state = "returned"
  /\ ObjectSubSchemas(schemaArg)
  /\ ComposedOnlyBy(schemaArg, "allOf")
  /\ "b" \notin PropertyNames(schemaArg)
  /\ \E i \in 1..Len(schemaArg.v["allOf"].v) :
       /\ "b" \in PropertyNames(schemaArg.v["allOf"].v[i])
       /\ ~NoComposition(Get(schemaArg.v["allOf"].v[i], "properties").v["b"])
  /\ "b" \in PropertyNames(sanitizeResult.value)
  /\ "c" \in PropertyNames(Get(sanitizeResult.value, "properties").v["b"])

\* C33: the connection a callTool invocation awaits its backend call on is
\* the one it connected itself and is not closed while the invocation is in
\* flight, and no invocation's result is the error of a connection that
\* another invocation closed.
C33_Original ==
  /\ \A c \in DOMAIN forwarderCalls :
       forwarderCalls[c].pc = "calling" =>
         /\ connections[forwarderCalls[c].client].key = forwarderCalls[c].server.mcpServerName
         /\ connections[forwarderCalls[c].client].state # "closed"
  /\ forwarderReturned.fate # "notConnected"

\* C34: a step in which a waiting call returns the text 'Timeout waiting for
\* Agent 365 connection.' is taken only while no forwarder is installed; with
\* the forwarder installed, the waiting call's next step forwards it.
C34_Original ==
  [][\A c \in Callers :
       calls[c].pc = "waiting" /\ calls'[c].pc = "idle" /\ delivered'.response = TimeoutText
         => forwarder = "null"]_vars

\* C35: every tools/call invocation that suspended returns: one that waits
\* for discovery is released by the return of the discovery task or by its
\* timer, one that was forwarded by the return of the forwarder; and an
\* invocation received after discovery failed never waits for discovery.
C35_EveryCallAnswered ==
  /\ \A c \in Callers : (calls[c].pc # "idle") ~> (calls[c].pc = "idle")
  /\ [][\A c \in Callers :
          calls[c].pc = "idle" /\ discoveryComplete /\ discoveryError # "null"
            => calls'[c].pc # "waiting"]_vars

\* a call that waited was released by its timer while the callback had not
\* settled
C35_Witness ==
  /\ delivered.waited
  /\ delivered.response = TimeoutText
  /\ now >= delivered.deadline
  /\ callbackOutcome = "pending"
  /\ \A c \in Callers : calls[c].pc = "idle"

\* the discovery task ended in its catch: the callback rejected, or the
\* registry rebuild or the cache save threw after the callback resolved
DiscoveryThrew ==
  \/ callbackOutcome = "rejected"
  \/ callbackOutcome = "resolved" /\ discoveryError \in {SanitizeFailure, SaveFailure}

\* C36: the promise of the discovery task is never rejected; whenever the
\* callback rejected, or the rebuild or the save threw, the task has returned
\* with discoveryComplete set and discoveryError holding the message, and
\* every call that waits for discovery can take its next step.
C36_TaskNeverRejects ==
  /\ discoveryDone # "rejected"
  /\ discoveryPc = "returned" => discoveryDone = "resolved"
  /\ DiscoveryThrew =>
       /\ discoveryPc = "returned"
       /\ discoveryComplete
       /\ discoveryError \in FailureMessages \cup {SanitizeFailure, SaveFailure}
       /\ \A c \in Callers : calls[c].pc = "waiting" => ENABLED WaitDone(c)

\* the cache save threw while a call waits: the task has returned and the
\* call is about to be released
C36_Witness ==
  /\ discoveryError = SaveFailure
  /\ discoveryDone = "resolved"
  /\ \E c \in Callers : calls[c].pc = "waiting" /\ ENABLED WaitDone(c)

\* the external names of a registry with what each one maps to
NameMap(reg) ==
  {<<reg[k].uniqueName, reg[k].originalName, reg[k].serverName>> : k \in 1..Len(reg)}

\* the registry the constructor of the next process builds (415-423) from the
\* file runDiscovery saved for the registry reg at time t (531-541)
RestartRegistry(reg, t) ==
  LET cached == loadToolsCache(saveToolsCache(FreshTools(reg), t), t)
  IN IF cached.present /\ Len(cached.tools) > 0
     THEN rebuildRegistryFromCache(cached.tools).reg
     ELSE <<>>

\* C37: the registry rebuilt after a restart from the cache that was saved
\* for the live registry has the same external names as the live registry,
\* each with the same original name and origin backend.
C37_Original ==
  registrySource = "live" =>
    NameMap(RestartRegistry(toolRegistry, now)) = NameMap(toolRegistry)

\* the same for discovery results in which no external name is taken twice
C37_WithoutLostEntries ==
  registrySource = "live" /\ Len(toolRegistry) = Len(SourceTools) =>
    NameMap(RestartRegistry(toolRegistry, now)) = NameMap(toolRegistry)

PlaceholderNames == {SignInName, ConnectionName}

\* C38: every list response holds at least one definition and is of one kind:
\* for a non-empty registry the definitions of all its entries, in order, and
\* none of them a placeholder; for an empty registry exactly one placeholder.
C38_ListOfOneKind ==
  /\ [](lastList.answered =>
          /\ Len(lastList.tools) >= 1
          /\ IF lastList.size > 0
             THEN /\ Len(lastList.tools) = lastList.size
                  /\ \A i \in 1..Len(lastList.tools) :
                       lastList.tools[i].name \notin PlaceholderNames
             ELSE /\ Len(lastList.tools) = 1
                  /\ lastList.tools[1].name \in PlaceholderNames)
  /\ [][lastList' # lastList /\ Len(toolRegistry) > 0 =>
          lastList'.tools = [k \in 1..Len(toolRegistry) |-> toolRegistry[k].toolDef]]_vars

\* a list request on an empty registry after discovery failed was answered
\* with the one failure placeholder
C38_Witness ==
  /\ lastList.answered /\ lastList.size = 0
  /\ lastList.tools[1].name = ConnectionName
  /\ lastList.complete
  /\ toolRegistry = <<>>

\* C39: the step in which a refresh fails leaves token and expiresAt as they
\* were, makes every getToken invocation that waits on that refresh throw its
\* error, and empties pendingRefresh; the slot never holds a refresh that has
\* settled, and an invocation that starts to wait never waits on a refresh
\* that failed: after a failure the next one that needs a token starts its own.
C39_FailedRefreshCleared ==
  /\ [](pendingRefresh # 0 => refreshes[pendingRefresh].state = "pending")
  /\ [][\A k \in DOMAIN refreshes :
          refreshes[k].state = "pending" /\ refreshes'[k].state = "rejected" =>
            /\ token' = token
            /\ expiresAt' = expiresAt
            /\ pendingRefresh' = 0
            /\ \A c \in DOMAIN tokenCalls :
                 tokenCalls[c].pc = "waiting" /\ tokenCalls[c].refresh = k =>
                   /\ tokenCalls'[c].pc = "threw"
                   /\ tokenCalls'[c].error = RefreshError]_vars
  /\ [][\A c \in DOMAIN tokenCalls :
          tokenCalls[c].pc # "waiting" /\ tokenCalls'[c].pc = "waiting" =>
            /\ refreshes'[tokenCalls'[c].refresh].state = "pending"
            /\ (\E k \in DOMAIN refreshes : refreshes[k].state = "rejected")
                 /\ pendingRefresh = 0 =>
                 /\ tokenCalls'[c].starter
                 /\ tokenCalls'[c].refresh \notin DOMAIN refreshes]_vars

\* the refresh that had stored a token was followed by one that failed under
\* two invocations: the first one's token is still the stored one
C39_Witness ==
  /\ Len(refreshes) = 2
  /\ refreshes[1].state = "resolved" /\ refreshes[2].state = "rejected"
  /\ token = refreshes[1].token
  /\ pendingRefresh = 0
  /\ \A c \in DOMAIN tokenCalls : tokenCalls[c].pc = "threw" /\ tokenCalls[c].refresh = 2

====
